---------------------------- MODULE Spec2Model ----------------------------
(***************************************************************************)
(* Story clustering pipeline of the UAE news scraper                       *)
(* (src/app/scraper/news_scraper.py): TextProcessor.calculate_similarity,  *)
(* UAENewsScraper.find_matching_story, process_article and scrape_source,  *)
(* run against the storage API (src/app/database/supabase_client.py).      *)
(*                                                                         *)
(* A process is one run of scrape_source over a batch of extracted         *)
(* articles.  Every await of the code is a point where a process can be    *)
(* suspended, so every action below runs from one await to the next.       *)
(*                                                                         *)
(* Numbers: a similarity is the float intersection / union of two small    *)
(* integers.  It is kept here as the exact fraction <<n, d>>; comparisons  *)
(* cross-multiply.  Correctly rounded division is monotone, and the        *)
(* fractions used are far apart compared with a double's precision, so the *)
(* float comparisons of the code agree with the exact ones.                *)
(***************************************************************************)
EXTENDS Integers, Sequences, FiniteSets, TLC

VARIABLES
    similarity_threshold,  \* settings.similarity_threshold, a fraction <<n, d>>
    store,                 \* the articles held by the storage API, oldest first
    minted,                \* the values uuid.uuid4() has returned so far
    pc,                    \* per process: the await it is suspended at
    articles,              \* per process: the batch extract_articles_from_page returned
    idx,                   \* per process: position of scrape_source's loop in the batch
    processed_count,       \* per process: scrape_source's processed_count
    dup,                   \* per process: what link_exists answered for the article
    recent_stories,        \* per process: what get_recent_stories returned
    matching_story_id,     \* per process: what find_matching_story returned
    article_data,          \* per process: the record built by process_article
    calls,                 \* per process: the collaborator calls made for the article
    errors,                \* per process: logger.error calls made for the article
    outcomes,              \* per process: one entry per return of process_article
    scraped_urls,          \* per process: self.scraped_urls of its scraper
    page,                  \* per process: the article elements of the page it fetched
    run,                   \* per process: the runs of scrape_source by its scraper
    input_text,            \* the argument of a call of extract_keywords
    output_keywords,       \* what the call of extract_keywords did
    input_keywords1,       \* the first argument of a call of calculate_similarity
    input_keywords2,       \* the second argument of a call of calculate_similarity
    output_similarity,     \* what the call of calculate_similarity returned
    attempt,               \* per process: attempt of post_article_with_retry's loop
    post_returned,         \* per process: what post_article_with_retry returned
    error_summary          \* self.error_summary of the enhanced scraper

shared == <<similarity_threshold, store, minted>>
scraper == <<scraped_urls, page, run>>
text_processor ==
    <<input_text, output_keywords, input_keywords1, input_keywords2, output_similarity>>
enhanced_scraper == <<attempt, post_returned, error_summary>>
\* what process_article leaves alone
elsewhere == <<scraper, text_processor, enhanced_scraper>>
vars == <<similarity_threshold, store, minted, pc, articles, idx, processed_count,
          dup, recent_stories, matching_story_id, article_data, calls, errors,
          outcomes, scraped_urls, page, run, input_text, output_keywords,
          input_keywords1, input_keywords2, output_similarity, attempt,
          post_returned, error_summary>>

---------------------------------------------------------------------------
(* Bounds of the model *)

MaxStories == 2     \* articles in the store when a run starts
MaxBatch == 2       \* articles in one batch

(* Values *)

None == 0
NoData == [link |-> 0]

\* The runs of scrape_source that can be in progress at once, one for each
\* request to /run.  In the specifications below process 1 runs alone.
ProcIds == {1, 2}
StoryIds == 1..(2 + MaxBatch)   \* those of the store and one for every article of a batch
Categories == {"economy", "sports"}

\* settings.similarity_threshold: the default 0.4 and the two ends of its domain
DefaultThreshold == <<2, 5>>
Thresholds == {<<0, 1>>, DefaultThreshold, <<1, 1>>}

---------------------------------------------------------------------------
(* Fractions *)

Zero == <<0, 1>>
One == <<1, 1>>
Eq(a, b) == a[1] * b[2] = b[1] * a[2]
Gt(a, b) == a[1] * b[2] > b[1] * a[2]
Geq(a, b) == a[1] * b[2] >= b[1] * a[2]

(* list(article.keywords) and set(story['keywords']) *)

RECURSIVE ListOf(_)
ListOf(S) ==
    IF S = {} THEN <<>>
    ELSE LET x == CHOOSE y \in S : TRUE IN <<x>> \o ListOf(S \ {x})

SetOf(l) == {l[i] : i \in DOMAIN l}

---------------------------------------------------------------------------
(* TextProcessor.calculate_similarity: Jaccard similarity of two keyword sets *)

\* calculate_similarity without lines 564-565 and without the test of line 570
calculate_similarityUnguarded(keywords1, keywords2) ==
    <<Cardinality(keywords1 \cap keywords2), Cardinality(keywords1 \cup keywords2)>>

\* calculate_similarity dividing by the size of its first argument
calculate_similarityOverFirst(keywords1, keywords2) ==
    IF keywords1 = {} \/ keywords2 = {} THEN Zero
    ELSE <<Cardinality(keywords1 \cap keywords2), Cardinality(keywords1)>>

\* calculate_similarity dividing by the sum of the sizes of its arguments
calculate_similarityOverBoth(keywords1, keywords2) ==
    IF keywords1 = {} \/ keywords2 = {} THEN Zero
    ELSE <<Cardinality(keywords1 \cap keywords2),
           Cardinality(keywords1) + Cardinality(keywords2)>>

calculate_similarity(keywords1, keywords2) ==
    IF keywords1 = {} \/ keywords2 = {} THEN Zero
    ELSE LET intersection == Cardinality(keywords1 \cap keywords2)
             union == Cardinality(keywords1 \cup keywords2)
         IN  IF union > 0 THEN <<intersection, union>> ELSE Zero

(* The condition under which the loop of find_matching_story takes a story
   as the best match so far (news_scraper.py lines 806-808). *)

\* Accepts without the category test of line 808
AcceptsAnyCategory(similarity, best_similarity, story, article) ==
    /\ Gt(similarity, best_similarity)
    /\ Geq(similarity, similarity_threshold)

\* Accepts without the threshold test of line 807
AcceptsBelowThreshold(similarity, best_similarity, story, article) ==
    /\ Gt(similarity, best_similarity)
    /\ story.category = article.category

Accepts(similarity, best_similarity, story, article) ==
    /\ Gt(similarity, best_similarity)
    /\ Geq(similarity, similarity_threshold)
    /\ story.category = article.category

(* The loop of find_matching_story from position i on, with the best match
   found before i.  The result is best_match_id. *)

RECURSIVE MatchLoop(_, _, _, _, _)
MatchLoop(article, recent, i, best_match_id, best_similarity) ==
    IF i > Len(recent) THEN best_match_id
    ELSE LET story == recent[i]
             similarity == calculate_similarity(article.keywords, SetOf(story.keywords))
         IN  IF Accepts(similarity, best_similarity, story, article)
             THEN MatchLoop(article, recent, i + 1, story.story_id, similarity)
             ELSE MatchLoop(article, recent, i + 1, best_match_id, best_similarity)

(* find_matching_story once get_recent_stories has returned recent *)

BestMatch(article, recent) == MatchLoop(article, recent, 1, None, Zero)

(* APIClient.get_recent_stories on a 200 response carrying data: the articles
   that have a story_id, in the order of the response. *)

RECURSIVE StoriesOf(_)
StoriesOf(data) ==
    IF data = <<>> THEN <<>>
    ELSE LET a == Head(data)
         IN  (IF a.story_id # None
              THEN <<[story_id |-> a.story_id, keywords |-> a.keywords,
                      category |-> a.category]>>
              ELSE <<>>) \o StoriesOf(Tail(data))

(* The record process_article builds for an article (lines 833-855).  The
   fields timestamp, text_content, source and title are copied from the
   article and take no part in any decision; they are left out. *)

\* ArticleData with the flag of line 846 set as in line 855
ArticleDataAlwaysPrimary(article, story_id, is_primary_article) ==
    [link |-> article.url,
     category |-> article.category,
     keywords |-> ListOf(article.keywords),
     story_id |-> story_id,
     is_primary_article |-> TRUE]

\* ArticleData with the flag of line 855 set as in line 846
ArticleDataNeverPrimary(article, story_id, is_primary_article) ==
    [link |-> article.url,
     category |-> article.category,
     keywords |-> ListOf(article.keywords),
     story_id |-> story_id,
     is_primary_article |-> FALSE]

ArticleData(article, story_id, is_primary_article) ==
    [link |-> article.url,
     category |-> article.category,
     keywords |-> ListOf(article.keywords),
     story_id |-> story_id,
     is_primary_article |-> is_primary_article]

(* The storage API *)

Links == {store[i].link : i \in DOMAIN store}
link_exists(url) == url \in Links

(* What the storage API holds after it has accepted a record: both
   create_article and add_article_to_story post the record as it is. *)

create_article(data) == Append(store, data)
add_article_to_story(data, story_id) == Append(store, data)

(* uuid.uuid4(): a value it has not returned before.  Story ids are only
   compared for equality, so which new value it is makes no difference: the
   model takes the least one. *)

\* an id generator that can return a value again
uuid4Reused == StoryIds

uuid4 ==
    LET new == StoryIds \ minted
    IN  {id \in new : \A other \in new : id <= other}

---------------------------------------------------------------------------
(* The state a run starts in *)

ArticleKeywordSets == {{}, {"metro", "expansion"}}
StoryKeywordSets ==
    {{}, {"metro"}, {"metro", "phase"}, {"metro", "expansion"},
     {"metro", "expansion", "phase"}}

\* The store before the run: article i has link i; the first article of a
\* story is its primary article; the articles of one story share one
\* category.
InitStoryIds == {1, 2}
StoredBase == [category : Categories, keywords : StoryKeywordSets, story_id : InitStoryIds]

StoreOf(f) ==
    [i \in DOMAIN f |->
        [link |-> i,
         category |-> f[i].category,
         keywords |-> ListOf(f[i].keywords),
         story_id |-> f[i].story_id,
         is_primary_article |->
            /\ f[i].story_id # None
            /\ \A j \in 1..(i - 1) : f[j].story_id # f[i].story_id]]

OneCategoryPerStory(s) ==
    \A i, j \in DOMAIN s :
        (s[i].story_id # None /\ s[i].story_id = s[j].story_id)
            => s[i].category = s[j].category

InitStores ==
    {s \in UNION {{StoreOf(f) : f \in [1..n -> StoredBase]} : n \in 0..MaxStories} :
        OneCategoryPerStory(s)}

\* A batch: its first article has the link of the first stored article or a
\* link of its own, the others have links of their own;
\* extract_articles_from_page returns no link twice.
ArticlesAt(j) ==
    [url : IF j = 1 THEN {1, 11} ELSE {10 + j},
     category : Categories,
     keywords : ArticleKeywordSets]

Batches ==
    {b \in UNION {[1..n -> UNION {ArticlesAt(j) : j \in 1..n}] : n \in 1..MaxBatch} :
        /\ \A j \in DOMAIN b : b[j] \in ArticlesAt(j)
        /\ \A j, k \in DOMAIN b : j # k => b[j].url # b[k].url}

NoCall == <<>>

\* extract_articles_from_page has returned the batch in the first run of the
\* scraper: every element of the page gave an article, whose url is in
\* scraped_urls (lines 776-777)
NotReturned == <<>>

\* no call of the text processor is under way
\* no call of post_article_with_retry is under way
EnhancedScraperAtRest ==
    /\ attempt = [p \in ProcIds |-> 0]
    /\ post_returned = [p \in ProcIds |-> NotReturned]
    /\ error_summary = [rate_limit_hits |-> 0, api_errors |-> <<>>]

TextProcessorAtRest ==
    /\ input_text = <<>>
    /\ output_keywords = NotReturned
    /\ input_keywords1 = {}
    /\ input_keywords2 = {}
    /\ output_similarity = NotReturned

Extracted ==
    /\ page = articles
    /\ scraped_urls = [p \in ProcIds |-> {articles[p][k].url : k \in DOMAIN articles[p]}]
    /\ run = [p \in ProcIds |-> 1]

InitLocals(b) ==
    /\ pc = [p \in ProcIds |-> IF p = 1 THEN "loop" ELSE "idle"]
    /\ articles = [p \in ProcIds |-> IF p = 1 THEN b ELSE <<>>]
    /\ idx = [p \in ProcIds |-> 1]
    /\ processed_count = [p \in ProcIds |-> 0]
    /\ dup = [p \in ProcIds |-> FALSE]
    /\ recent_stories = [p \in ProcIds |-> <<>>]
    /\ matching_story_id = [p \in ProcIds |-> None]
    /\ article_data = [p \in ProcIds |-> NoData]
    /\ calls = [p \in ProcIds |-> NoCall]
    /\ errors = [p \in ProcIds |-> 0]
    /\ outcomes = [p \in ProcIds |-> <<>>]
    /\ Extracted
    /\ TextProcessorAtRest
    /\ EnhancedScraperAtRest

\* Runs of one new article against every store and every threshold
InitMatch ==
    /\ similarity_threshold \in Thresholds
    /\ store \in InitStores
    /\ \E b \in Batches : Len(b) = 1 /\ b[1].url \notin {1} /\ InitLocals(b)

\* Runs of every batch against the empty store and against a store of one
\* article, which is the founding article of a story or has no story_id
SingleArticles ==
    {StoreOf([i \in {1} |->
        [category |-> c, keywords |-> {"metro", "expansion"}, story_id |-> id]]) :
            c \in Categories, id \in {None, 1}}

InitBatch ==
    /\ similarity_threshold = DefaultThreshold
    /\ store \in {<<>>} \cup SingleArticles
    /\ \E b \in Batches : InitLocals(b)

Init ==
    /\ minted = InitStoryIds
    /\ InitMatch \/ InitBatch

---------------------------------------------------------------------------
(* process_article and scrape_source *)

Article(p) == articles[p][idx[p]]

\* A collaborator call as process_article makes it, and what it got back
Call(op, data, story_id) ==
    [op |-> op, data |-> data, story_id |-> story_id, result |-> "pending"]

Answered(p, result) ==
    calls' = [calls EXCEPT ![p] = [@ EXCEPT ![Len(@)].result = result]]

\* Return with every article counted
ReturnCounted(p, success, outcome) ==
    /\ outcomes' = [outcomes EXCEPT ![p] =
            Append(@, [url |-> Article(p).url, success |-> success, outcome |-> outcome])]
    /\ processed_count' = [processed_count EXCEPT ![p] = @ + 1]
    /\ pc' = [pc EXCEPT ![p] = "sleep"]

\* process_article returns success to scrape_source, which counts it and
\* sleeps (lines 878-883).  outcome names the return statement taken.
Return(p, success, outcome) ==
    /\ outcomes' = [outcomes EXCEPT ![p] =
            Append(@, [url |-> Article(p).url, success |-> success, outcome |-> outcome])]
    /\ processed_count' = [processed_count EXCEPT ![p] = IF success THEN @ + 1 ELSE @]
    /\ pc' = [pc EXCEPT ![p] = "sleep"]

\* scrape_source takes the next article and process_article asks link_exists
\* (lines 877-878, 825)
ProcessArticle(p) ==
    /\ pc[p] = "loop"
    /\ idx[p] <= Len(articles[p])
    /\ pc' = [pc EXCEPT ![p] = "link_exists"]
    /\ calls' = [calls EXCEPT ![p] = <<Call("link_exists", NoData, None)>>]
    /\ dup' = [dup EXCEPT ![p] = FALSE]
    /\ recent_stories' = [recent_stories EXCEPT ![p] = <<>>]
    /\ matching_story_id' = [matching_story_id EXCEPT ![p] = None]
    /\ article_data' = [article_data EXCEPT ![p] = NoData]
    /\ errors' = [errors EXCEPT ![p] = 0]
    /\ UNCHANGED <<shared, elsewhere, articles, idx, processed_count, outcomes>>

\* LinkExistsTrue without the return of line 827
LinkExistsTrueGoesOn(p) ==
    /\ pc[p] = "link_exists"
    /\ link_exists(Article(p).url)
    /\ dup' = [dup EXCEPT ![p] = TRUE]
    /\ pc' = [pc EXCEPT ![p] = "get_recent_stories"]
    /\ calls' = [calls EXCEPT ![p] =
            Append([@ EXCEPT ![Len(@)].result = "true"],
                   Call("get_recent_stories", NoData, None))]
    /\ UNCHANGED <<shared, elsewhere, articles, idx, processed_count, recent_stories,
                   matching_story_id, article_data, errors, outcomes>>

\* link_exists answers true: lines 825-827
LinkExistsTrue(p) ==
    /\ pc[p] = "link_exists"
    /\ link_exists(Article(p).url)
    /\ dup' = [dup EXCEPT ![p] = TRUE]
    /\ Answered(p, "true")
    /\ Return(p, FALSE, "Skipped")
    /\ UNCHANGED <<shared, elsewhere, articles, idx, recent_stories,
                   matching_story_id, article_data, errors>>

\* link_exists answers false: process_article calls find_matching_story,
\* which asks get_recent_stories (lines 830, 793)
LinkExistsFalse(p) ==
    /\ pc[p] = "link_exists"
    /\ ~link_exists(Article(p).url)
    /\ pc' = [pc EXCEPT ![p] = "get_recent_stories"]
    /\ calls' = [calls EXCEPT ![p] =
            Append([@ EXCEPT ![Len(@)].result = "false"],
                   Call("get_recent_stories", NoData, None))]
    /\ UNCHANGED <<shared, elsewhere, articles, idx, processed_count, dup,
                   recent_stories, matching_story_id, article_data, errors,
                   outcomes>>

\* LinkExistsRaises without the except clause of lines 862-864: the exception
\* leaves process_article and scrape_source
LinkExistsRaisesUncaught(p) ==
    /\ pc[p] = "link_exists"
    /\ Answered(p, "raised")
    /\ pc' = [pc EXCEPT ![p] = "raised"]
    /\ UNCHANGED <<shared, elsewhere, articles, idx, processed_count, dup,
                   recent_stories, matching_story_id, article_data, errors,
                   outcomes>>

\* link_exists raises: lines 862-864
LinkExistsRaises(p) ==
    /\ pc[p] = "link_exists"
    /\ Answered(p, "raised")
    /\ errors' = [errors EXCEPT ![p] = @ + 1]
    /\ Return(p, FALSE, "Failed")
    /\ UNCHANGED <<shared, elsewhere, articles, idx, dup, recent_stories,
                   matching_story_id, article_data>>

\* find_matching_story from the return of get_recent_stories (lines 797-815)
\* and process_article up to its storage call (lines 830-857)
Branch(p, recent, result) ==
    LET matched == BestMatch(Article(p), recent)
        answered == [calls[p] EXCEPT ![Len(calls[p])].result = result]
    IN  /\ recent_stories' = [recent_stories EXCEPT ![p] = recent]
        /\ matching_story_id' = [matching_story_id EXCEPT ![p] = matched]
        /\ IF matched # None
           THEN LET data == ArticleData(Article(p), matched, FALSE)
                IN  /\ article_data' = [article_data EXCEPT ![p] = data]
                    /\ calls' = [calls EXCEPT ![p] =
                            Append(answered, Call("add_article_to_story", data, matched))]
                    /\ pc' = [pc EXCEPT ![p] = "add_article_to_story"]
                    /\ UNCHANGED minted
           ELSE \E id \in uuid4 :
                LET data == ArticleData(Article(p), id, TRUE)
                IN  /\ minted' = minted \cup {id}
                    /\ article_data' = [article_data EXCEPT ![p] = data]
                    /\ calls' = [calls EXCEPT ![p] =
                            Append(answered, Call("create_article", data, None))]
                    /\ pc' = [pc EXCEPT ![p] = "create_article"]

\* get_recent_stories gets a 200 response (lines 90-105)
GetRecentStoriesOk(p) ==
    /\ pc[p] = "get_recent_stories"
    /\ Branch(p, StoriesOf(store), "stories")
    /\ UNCHANGED <<elsewhere, similarity_threshold, store, articles, idx,
                   processed_count, dup, errors, outcomes>>

\* get_recent_stories gets another status or an exception, logs it and
\* returns the empty list (lines 106-112)
GetRecentStoriesFails(p) ==
    /\ pc[p] = "get_recent_stories"
    /\ errors' = [errors EXCEPT ![p] = @ + 1]
    /\ Branch(p, <<>>, "failed")
    /\ UNCHANGED <<elsewhere, similarity_threshold, store, articles, idx,
                   processed_count, dup, outcomes>>

\* add_article_to_story returns an identifier: lines 848-851
AddArticleOk(p) ==
    /\ pc[p] = "add_article_to_story"
    /\ store' = add_article_to_story(article_data[p], matching_story_id[p])
    /\ Answered(p, "id")
    /\ Return(p, TRUE, "MergedIntoStory")
    /\ UNCHANGED <<elsewhere, similarity_threshold, minted, articles, idx, dup,
                   recent_stories, matching_story_id, article_data, errors>>

\* add_article_to_story returns None: line 851
AddArticleNone(p) ==
    /\ pc[p] = "add_article_to_story"
    /\ Answered(p, "none")
    /\ Return(p, FALSE, "Failed")
    /\ UNCHANGED <<shared, elsewhere, articles, idx, dup, recent_stories,
                   matching_story_id, article_data, errors>>

\* AddArticleRaises with an except clause that calls add_article_to_story again
AddArticleRaisesRetries(p) ==
    /\ pc[p] = "add_article_to_story"
    /\ \/ store' = add_article_to_story(article_data[p], matching_story_id[p])
       \/ UNCHANGED store
    /\ Len(calls[p]) < 4
    /\ calls' = [calls EXCEPT ![p] =
            Append([@ EXCEPT ![Len(@)].result = "raised"],
                   Call("add_article_to_story", article_data[p], matching_story_id[p]))]
    /\ errors' = [errors EXCEPT ![p] = @ + 1]
    /\ UNCHANGED <<elsewhere, similarity_threshold, minted, pc, articles, idx,
                   processed_count, dup, recent_stories, matching_story_id,
                   article_data, outcomes>>

\* add_article_to_story raises, before or after the API stored the record:
\* lines 862-864
AddArticleRaises(p) ==
    /\ pc[p] = "add_article_to_story"
    /\ \/ store' = add_article_to_story(article_data[p], matching_story_id[p])
       \/ UNCHANGED store
    /\ Answered(p, "raised")
    /\ errors' = [errors EXCEPT ![p] = @ + 1]
    /\ Return(p, FALSE, "Failed")
    /\ UNCHANGED <<elsewhere, similarity_threshold, minted, articles, idx, dup,
                   recent_stories, matching_story_id, article_data>>

\* create_article returns an identifier: lines 857-860
CreateArticleOk(p) ==
    /\ pc[p] = "create_article"
    /\ store' = create_article(article_data[p])
    /\ Answered(p, "id")
    /\ Return(p, TRUE, "CreatedNewStory")
    /\ UNCHANGED <<elsewhere, similarity_threshold, minted, articles, idx, dup,
                   recent_stories, matching_story_id, article_data, errors>>

\* create_article returns None: line 860
CreateArticleNone(p) ==
    /\ pc[p] = "create_article"
    /\ Answered(p, "none")
    /\ Return(p, FALSE, "Failed")
    /\ UNCHANGED <<shared, elsewhere, articles, idx, dup, recent_stories,
                   matching_story_id, article_data, errors>>

\* create_article raises, before or after the API stored the record:
\* lines 862-864
CreateArticleRaises(p) ==
    /\ pc[p] = "create_article"
    /\ \/ store' = create_article(article_data[p])
       \/ UNCHANGED store
    /\ Answered(p, "raised")
    /\ errors' = [errors EXCEPT ![p] = @ + 1]
    /\ Return(p, FALSE, "Failed")
    /\ UNCHANGED <<elsewhere, similarity_threshold, minted, articles, idx, dup,
                   recent_stories, matching_story_id, article_data>>

\* asyncio.sleep(0.1) returns and the loop of scrape_source goes on (line 883)
Sleep(p) ==
    /\ pc[p] = "sleep"
    /\ idx' = [idx EXCEPT ![p] = @ + 1]
    /\ pc' = [pc EXCEPT ![p] = "loop"]
    /\ UNCHANGED <<shared, elsewhere, articles, processed_count, dup, recent_stories,
                   matching_story_id, article_data, calls, errors, outcomes>>

\* the loop is over: scrape_source returns processed_count (lines 885-886)
ScrapeSourceReturns(p) ==
    /\ pc[p] = "loop"
    /\ idx[p] > Len(articles[p])
    /\ pc' = [pc EXCEPT ![p] = "done"]
    /\ UNCHANGED <<shared, elsewhere, articles, idx, processed_count, dup,
                   recent_stories, matching_story_id, article_data, calls, errors,
                   outcomes>>

Step(p) ==
    \/ ProcessArticle(p)
    \/ LinkExistsTrue(p)
    \/ LinkExistsFalse(p)
    \/ LinkExistsRaises(p)
    \/ GetRecentStoriesOk(p)
    \/ GetRecentStoriesFails(p)
    \/ AddArticleOk(p)
    \/ AddArticleNone(p)
    \/ AddArticleRaises(p)
    \/ CreateArticleOk(p)
    \/ CreateArticleNone(p)
    \/ CreateArticleRaises(p)
    \/ Sleep(p)
    \/ ScrapeSourceReturns(p)

Next == \E p \in ProcIds : Step(p)

Spec == Init /\ [][Next]_vars

---------------------------------------------------------------------------
(* Vocabulary of the properties *)

\* find_matching_story has just returned to process_article in process p
Decided(p) == pc[p] \in {"add_article_to_story", "create_article"}

\* process_article has just returned for the article of process p
Returned(p) == pc[p] = "sleep"

LastOutcome(p) == outcomes[p][Len(outcomes[p])]

Similarity(p, i) ==
    calculate_similarity(Article(p).keywords, SetOf(recent_stories[p][i].keywords))

\* the positions of recent_stories that hold a story of the article's
\* category whose similarity reaches the threshold
Eligible(p) ==
    {i \in DOMAIN recent_stories[p] :
        /\ recent_stories[p][i].category = Article(p).category
        /\ Geq(Similarity(p, i), similarity_threshold)}

\* the first position among those of E with the greatest similarity
FirstBest(p, E) ==
    CHOOSE i \in E :
        /\ \A j \in E : Geq(Similarity(p, i), Similarity(p, j))
        /\ \A j \in E : (j < i) => Gt(Similarity(p, i), Similarity(p, j))

WriteOps == {"create_article", "add_article_to_story"}
CallsOf(p, ops) == {i \in DOMAIN calls[p] : calls[p][i].op \in ops}

---------------------------------------------------------------------------
(* C1: when link_exists answers true for an article, process_article returns
   at once with the outcome Skipped: link_exists is the only collaborator
   call made for the article (no get_recent_stories, no create_article, no
   add_article_to_story) and no error is logged. *)
C1_DuplicateIsSkipped ==
    \A p \in ProcIds :
        dup[p] =>
            /\ pc[p] \in {"sleep", "loop", "done"}
            /\ LastOutcome(p).outcome = "Skipped"
            /\ LastOutcome(p).success = FALSE
            /\ Len(calls[p]) = 1
            /\ calls[p][1].op = "link_exists"
            /\ calls[p][1].result = "true"
            /\ errors[p] = 0
            /\ article_data[p] = NoData

C1_Witness ==
    \E p \in ProcIds : dup[p] /\ Returned(p) /\ LastOutcome(p).url \in Links

(* C2: find_matching_story returns the story at the first position of
   recent_stories among the eligible positions (same category, similarity >=
   similarity_threshold) of greatest similarity. *)
C2_BestEligibleFirstWins ==
    \A p \in ProcIds :
        (Decided(p) /\ Eligible(p) # {}) =>
            matching_story_id[p] = recent_stories[p][FirstBest(p, Eligible(p))].story_id

\* The same over the eligible positions whose similarity is above zero
EligibleAboveZero(p) == {i \in Eligible(p) : Gt(Similarity(p, i), Zero)}

BestEligibleAboveZeroFirstWins ==
    \A p \in ProcIds :
        (Decided(p) /\ EligibleAboveZero(p) # {}) =>
            matching_story_id[p] =
                recent_stories[p][FirstBest(p, EligibleAboveZero(p))].story_id

(* C3: find_matching_story returns only the story_id of a story of the
   article's category; it returns None when no recent story has the
   article's category; and the stories of other categories do not change
   the result: it is the result over the same-category stories alone. *)
SameCategory(p) ==
    SelectSeq(recent_stories[p], LAMBDA story : story.category = Article(p).category)

C3_CategoryGate ==
    \A p \in ProcIds :
        Decided(p) =>
            /\ matching_story_id[p] # None =>
                    \E i \in DOMAIN recent_stories[p] :
                        /\ recent_stories[p][i].story_id = matching_story_id[p]
                        /\ recent_stories[p][i].category = Article(p).category
            /\ SameCategory(p) = <<>> => matching_story_id[p] = None
            /\ matching_story_id[p] = BestMatch(Article(p), SameCategory(p))

\* a story of another category scores higher than the same-category story
\* that is returned
C3_Witness ==
    \E p \in ProcIds :
        /\ Decided(p)
        /\ matching_story_id[p] # None
        /\ \E i, j \in DOMAIN recent_stories[p] :
            /\ recent_stories[p][i].category # Article(p).category
            /\ recent_stories[p][j].story_id = matching_story_id[p]
            /\ Gt(Similarity(p, i), Similarity(p, j))

(* C4: find_matching_story returns None when no story of the article's
   category has a similarity >= similarity_threshold, and every story_id it
   returns is that of a story whose similarity is >= similarity_threshold. *)
C4_ThresholdGate ==
    \A p \in ProcIds :
        Decided(p) =>
            /\ Eligible(p) = {} => matching_story_id[p] = None
            /\ matching_story_id[p] # None =>
                    \E i \in DOMAIN recent_stories[p] :
                        /\ recent_stories[p][i].story_id = matching_story_id[p]
                        /\ Geq(Similarity(p, i), similarity_threshold)

\* a same-category story with a similarity above zero and below the
\* threshold is passed over
C4_Witness ==
    \E p \in ProcIds :
        /\ Decided(p)
        /\ matching_story_id[p] = None
        /\ \E i \in DOMAIN recent_stories[p] :
            /\ recent_stories[p][i].category = Article(p).category
            /\ Gt(Similarity(p, i), Zero)
            /\ ~Geq(Similarity(p, i), similarity_threshold)

\* the article of process p got past link_exists and find_matching_story,
\* and its storage call has been made
Submitted(p) ==
    /\ pc[p] \in {"add_article_to_story", "create_article", "sleep"}
    /\ Len(calls[p]) = 3

\* the record of call i is the article's, flagged and attached as given
RecordIs(p, i, story_id, is_primary_article) ==
    /\ calls[p][i].data.link = Article(p).url
    /\ calls[p][i].data.category = Article(p).category
    /\ SetOf(calls[p][i].data.keywords) = Article(p).keywords
    /\ calls[p][i].data.story_id = story_id
    /\ calls[p][i].data.is_primary_article = is_primary_article

\* what process_article did for a matched article, the outcome left aside
AppendedOnce(p) ==
    /\ CallsOf(p, {"create_article"}) = {}
    /\ CallsOf(p, {"add_article_to_story"}) = {3}
    /\ calls[p][3].story_id = matching_story_id[p]
    /\ RecordIs(p, 3, matching_story_id[p], FALSE)

\* what process_article did for an unmatched article, the outcome left aside
CreatedOnce(p) ==
    /\ CallsOf(p, {"add_article_to_story"}) = {}
    /\ CallsOf(p, {"create_article"}) = {3}
    /\ calls[p][3].data.story_id \in StoryIds
    /\ calls[p][3].data.story_id \in minted
    /\ RecordIs(p, 3, calls[p][3].data.story_id, TRUE)

(* C5, as claimed: when find_matching_story finds a story for an article
   that is no duplicate, process_article submits exactly one record, with
   is_primary_article false and the matched story_id, through
   add_article_to_story, does not call create_article, and the outcome is
   MergedIntoStory. *)
C5_MatchEndsMerged ==
    \A p \in ProcIds :
        (Submitted(p) /\ Returned(p) /\ matching_story_id[p] # None) =>
            /\ AppendedOnce(p)
            /\ LastOutcome(p).outcome = "MergedIntoStory"

(* C5, amended: when find_matching_story finds a story for an article that
   is no duplicate, process_article submits exactly one record, with
   is_primary_article false and the matched story_id, through
   add_article_to_story and does not call create_article; the outcome is
   MergedIntoStory when add_article_to_story returns an identifier, and a
   failure when it returns None or raises. *)
C5_MatchIsAppended ==
    \A p \in ProcIds :
        (Submitted(p) /\ matching_story_id[p] # None) =>
            /\ AppendedOnce(p)
            /\ Returned(p) =>
                IF calls[p][3].result = "id"
                THEN LastOutcome(p).outcome = "MergedIntoStory" /\ LastOutcome(p).success
                ELSE LastOutcome(p).outcome = "Failed" /\ ~LastOutcome(p).success

C5_Witness ==
    \E p \in ProcIds :
        /\ Submitted(p) /\ Returned(p) /\ matching_story_id[p] # None
        /\ LastOutcome(p).outcome = "MergedIntoStory"
        /\ \E i \in DOMAIN store :
            /\ store[i].link = Article(p).url
            /\ store[i].story_id = matching_story_id[p]
            /\ ~store[i].is_primary_article

(* C6, as claimed: when find_matching_story finds no story for an article
   that is no duplicate, process_article mints a new story_id, submits
   exactly one record, with is_primary_article true and that story_id,
   through create_article, does not call add_article_to_story, and the
   outcome is CreatedNewStory. *)
C6_NoMatchEndsCreated ==
    \A p \in ProcIds :
        (Submitted(p) /\ Returned(p) /\ matching_story_id[p] = None) =>
            /\ CreatedOnce(p)
            /\ LastOutcome(p).outcome = "CreatedNewStory"

(* C6, amended: when find_matching_story finds no story for an article that
   is no duplicate, process_article mints a new story_id, submits exactly
   one record, with is_primary_article true and that story_id, through
   create_article and does not call add_article_to_story; the outcome is
   CreatedNewStory when create_article returns an identifier, and a failure
   when it returns None or raises. *)
C6_NoMatchIsCreated ==
    \A p \in ProcIds :
        (Submitted(p) /\ matching_story_id[p] = None) =>
            /\ CreatedOnce(p)
            /\ Returned(p) =>
                IF calls[p][3].result = "id"
                THEN LastOutcome(p).outcome = "CreatedNewStory" /\ LastOutcome(p).success
                ELSE LastOutcome(p).outcome = "Failed" /\ ~LastOutcome(p).success

C6_Witness ==
    \E p \in ProcIds :
        /\ Submitted(p) /\ Returned(p) /\ matching_story_id[p] = None
        /\ LastOutcome(p).outcome = "CreatedNewStory"
        /\ \E i \in DOMAIN store :
            /\ store[i].link = Article(p).url
            /\ store[i].story_id \in StoryIds
            /\ store[i].is_primary_article

\* the story ids of the stored articles
StoredIds == {store[i].story_id : i \in DOMAIN store} \ {None}

\* process p mints a story_id in this step
Mints(p) == pc[p] = "get_recent_stories" /\ pc'[p] = "create_article"

\* the story ids of the records the other processes are submitting
InFlightIds(p) ==
    {article_data[q].story_id :
        q \in {r \in ProcIds \ {p} : pc[r] \in {"add_article_to_story", "create_article"}}}

(* C7: a story_id minted for a new story differs from every story_id in the
   store, from every story_id minted before and from the story_id of every
   record being submitted; so the founding articles in the store have
   pairwise different story ids. *)
C7_StoryIdsNeverReused ==
    [][ /\ \A p \in ProcIds :
            Mints(p) =>
                /\ article_data'[p].story_id \in StoryIds
                /\ article_data'[p].story_id \notin StoredIds
                /\ article_data'[p].story_id \notin minted
                /\ article_data'[p].story_id \notin InFlightIds(p)
        /\ \A i, j \in DOMAIN store' :
            (i # j /\ store'[i].is_primary_article /\ store'[j].is_primary_article)
                => store'[i].story_id # store'[j].story_id ]_vars

\* a run has founded two stories beside the one the store began with
C7_Witness ==
    \E p \in ProcIds :
        /\ Returned(p)
        /\ Len(outcomes[p]) >= 2
        /\ \A k \in DOMAIN outcomes[p] : outcomes[p][k].outcome = "CreatedNewStory"
        /\ Cardinality({i \in DOMAIN store : store[i].is_primary_article}) >= 3

(* C8: starting from a store in which the articles of each story share one
   category, the articles of each story share one category after every
   step, the record being submitted included; and a stored article is never
   changed. *)
C8_OneCategoryPerStory ==
    [][ /\ OneCategoryPerStory(store')
        /\ \A p \in ProcIds :
            pc'[p] \in {"add_article_to_story", "create_article"} =>
                \A i \in DOMAIN store' :
                    store'[i].story_id = article_data'[p].story_id
                        => store'[i].category = article_data'[p].category
        /\ \A i \in DOMAIN store : i \in DOMAIN store' /\ store'[i] = store[i] ]_vars

\* an article has been merged into a story while the store holds a story of
\* the other category whose founding article has the same keywords
C8_Witness ==
    \E p \in ProcIds :
        /\ Returned(p)
        /\ LastOutcome(p).outcome = "MergedIntoStory"
        /\ \E i, j \in DOMAIN store :
            /\ store[i].story_id \in StoryIds
            /\ store[j].story_id \in StoryIds
            /\ store[i].category # store[j].category
            /\ store[i].keywords = store[j].keywords
            /\ store[j].story_id = matching_story_id[p]
            /\ store[j].category = Article(p).category

(* C9: for one article process_article makes at most one storage call
   (create_article or add_article_to_story, never both, never a second
   time), its record carries one story_id, and when every collaborator call
   made for an article that is no duplicate succeeds, the article ends with
   exactly one storage call and is stored once, under that story_id. *)
C9_OneWritePerArticle ==
    \A p \in ProcIds :
        /\ Cardinality(CallsOf(p, WriteOps)) <= 1
        /\ \A i \in CallsOf(p, WriteOps) : calls[p][i].data.story_id \in StoryIds
        /\ ( /\ Returned(p)
             /\ calls[p][1].result = "false"
             /\ \A i \in DOMAIN calls[p] : calls[p][i].result \notin {"raised", "failed", "none"} )
           => /\ Cardinality(CallsOf(p, WriteOps)) = 1
              /\ \E i \in DOMAIN store :
                    /\ store[i] = article_data[p]
                    /\ \A j \in DOMAIN store : store[j].link = Article(p).url => j = i
              /\ LastOutcome(p).success

C9_Witness ==
    \E p \in ProcIds :
        /\ Returned(p)
        /\ Len(outcomes[p]) >= 2
        /\ \A k \in DOMAIN outcomes[p] : outcomes[p][k].success
        /\ \E k \in DOMAIN outcomes[p] : outcomes[p][k].outcome = "MergedIntoStory"
        /\ \E k \in DOMAIN outcomes[p] : outcomes[p][k].outcome = "CreatedNewStory"

---------------------------------------------------------------------------
(* The event loop resumes a coroutine once the call it awaits has ended,
   and every collaborator call ends: with an answer, or with the exception
   of the HTTP client's timeout.  The runs are those of every batch. *)
InitFair == minted = InitStoryIds /\ InitBatch

FairSpec == InitFair /\ [][Next]_vars /\ \A p \in ProcIds : WF_vars(Step(p))

Outcomes == {"Skipped", "MergedIntoStory", "CreatedNewStory", "Failed"}

(* C10: whatever the collaborator answers or raises, no exception leaves
   process_article, every run of scrape_source ends, and when it has ended
   process_article has returned once for every article of the batch, in
   order, each time with one of the outcomes. *)
C10_BatchCompletes ==
    /\ [](\A p \in ProcIds : pc[p] # "raised")
    /\ [](\A p \in ProcIds :
            pc[p] = "done" =>
                /\ Len(outcomes[p]) = Len(articles[p])
                /\ \A k \in DOMAIN articles[p] :
                    /\ outcomes[p][k].url = articles[p][k].url
                    /\ outcomes[p][k].outcome \in Outcomes)
    /\ \A p \in ProcIds : (pc[p] = "loop") ~> (pc[p] = "done")

\* a run has ended after an article that failed and an article that was
\* stored
C10_Witness ==
    \E p \in ProcIds :
        /\ pc[p] = "done"
        /\ Len(articles[p]) >= 2
        /\ outcomes[p][1].outcome = "Failed"
        /\ outcomes[p][2].success


---------------------------------------------------------------------------
(* Failures of the collaborator *)

\* the results of a collaborator call that failed: it raised, or
\* get_recent_stories logged its failure and returned the empty list
FailureResults == {"raised", "failed"}

FailedCall(p) == \E k \in DOMAIN calls[p] : calls[p][k].result \in FailureResults

(* C11: when a collaborator call made for an article has failed (link_exists,
   get_recent_stories or the storage call), process_article returns with the
   outcome Failed; in particular an article whose get_recent_stories call
   failed is not reported as a newly created story. *)
C11_CollaboratorFailureIsFailure ==
    \A p \in ProcIds :
        (Returned(p) /\ FailedCall(p)) =>
            /\ ~LastOutcome(p).success
            /\ LastOutcome(p).outcome = "Failed"


---------------------------------------------------------------------------
(* Two requests to the endpoint run_scraper are served by one event loop:
   each runs its own scrape_source, and the two interleave at their awaits.
   Each run has one article; the articles have links of their own or the
   first has the link of the stored article. *)
InitConcurrent ==
    /\ minted = InitStoryIds
    /\ similarity_threshold = DefaultThreshold
    /\ store \in {<<>>} \cup SingleArticles
    /\ \E a \in ArticlesAt(1), b \in ArticlesAt(2) :
            articles = [p \in ProcIds |-> IF p = 1 THEN <<a>> ELSE <<b>>]
    /\ pc = [p \in ProcIds |-> "loop"]
    /\ idx = [p \in ProcIds |-> 1]
    /\ processed_count = [p \in ProcIds |-> 0]
    /\ dup = [p \in ProcIds |-> FALSE]
    /\ recent_stories = [p \in ProcIds |-> <<>>]
    /\ matching_story_id = [p \in ProcIds |-> None]
    /\ article_data = [p \in ProcIds |-> NoData]
    /\ calls = [p \in ProcIds |-> NoCall]
    /\ errors = [p \in ProcIds |-> 0]
    /\ outcomes = [p \in ProcIds |-> <<>>]
    /\ Extracted
    /\ TextProcessorAtRest
    /\ EnhancedScraperAtRest

ConcurrentSpec == InitConcurrent /\ [][Next]_vars

\* process_article is at its storage call in process p, or has just returned
\* from it
PastLookup(p) == (Decided(p) \/ Returned(p)) /\ Len(calls[p]) = 3

\* the story lookup of process p got an answer, and the answer held no
\* article of the story that process q puts its article in: when q founds
\* a story, the lookup of p came before the create of q
LookupBeforeCreateOf(p, q) ==
    /\ calls[p][2].result = "stories"
    /\ \A i \in DOMAIN recent_stories[p] :
            recent_stories[p][i].story_id # article_data[q].story_id

\* both lookups came before either create
Interleaved(p, q) ==
    /\ PastLookup(p)
    /\ PastLookup(q)
    /\ LookupBeforeCreateOf(p, q)
    /\ LookupBeforeCreateOf(q, p)

\* the one article of process p and the one of process q are of one category
\* and their similarity reaches the threshold
MutuallySimilar(p, q) ==
    /\ articles[p][1].category = articles[q][1].category
    /\ Geq(calculate_similarity(articles[p][1].keywords, articles[q][1].keywords),
           similarity_threshold)

(* C12: when the story lookups of two interleaved process_article calls both
   come before either create, for two articles of one category whose
   similarity reaches the threshold and that match no earlier story, nothing
   makes the second wait for the first: both call create_article as primary
   articles, with two distinct story_ids, and each call that returns an
   identifier ends as CreatedNewStory. *)
C12_InterleavedBothCreate ==
    \A p, q \in ProcIds :
        (/\ p # q
         /\ Interleaved(p, q)
         /\ MutuallySimilar(p, q)
         /\ Eligible(p) = {}
         /\ Eligible(q) = {}) =>
            /\ calls[p][3].op = "create_article"
            /\ calls[p][3].data.is_primary_article
            /\ calls[p][3].data.story_id # calls[q][3].data.story_id
            /\ (Returned(p) /\ calls[p][3].result = "id") =>
                    /\ LastOutcome(p).success
                    /\ LastOutcome(p).outcome = "CreatedNewStory"

\* both runs have ended as CreatedNewStory, the two articles being similar
\* and of one category, with two story_ids in the store
C12_Witness ==
    /\ Interleaved(1, 2)
    /\ MutuallySimilar(1, 2)
    /\ \A p \in ProcIds :
        /\ Returned(p)
        /\ LastOutcome(p).outcome = "CreatedNewStory"
    /\ \E i, j \in DOMAIN store :
        /\ store[i].link = articles[1][1].url
        /\ store[j].link = articles[2][1].url
        /\ store[i].story_id # store[j].story_id


---------------------------------------------------------------------------
(* Two articles of one batch about one event *)

\* the stored articles that are not of the batch of process p: the store
\* only grows, so these were stored before the run
Earlier(p) ==
    {i \in DOMAIN store : \A k \in DOMAIN articles[p] : store[i].link # articles[p][k].url}

\* an article stored before the run belongs to a story of the category of
\* article a, with a similarity that reaches the threshold
MatchesEarlier(p, a) ==
    \E i \in Earlier(p) :
        /\ store[i].story_id # None
        /\ store[i].category = a.category
        /\ Geq(calculate_similarity(a.keywords, SetOf(store[i].keywords)),
               similarity_threshold)

\* process_article has returned for the second article of the batch of
\* process p; the first article founded a story; the two are of one category,
\* their similarity reaches the threshold, and neither matches an article
\* stored before the run
SequentialPair(p) ==
    /\ Returned(p)
    /\ idx[p] = 2
    /\ outcomes[p][1].outcome = "CreatedNewStory"
    /\ articles[p][1].category = articles[p][2].category
    /\ Geq(calculate_similarity(articles[p][1].keywords, articles[p][2].keywords),
           similarity_threshold)
    /\ ~MatchesEarlier(p, articles[p][1])
    /\ ~MatchesEarlier(p, articles[p][2])

\* the second article went to the story the first article founded
InStoryOfFirst(p) ==
    \E i \in DOMAIN store :
        /\ store[i].link = articles[p][1].url
        /\ store[i].story_id = article_data[p].story_id

(* C13: in a batch, which scrape_source processes one article after the
   other, when the first of two articles of one category founded a story,
   the similarity of the two reaches the threshold and neither matches an
   earlier story, the second article founds no story of its own: when it is
   stored it is merged into the story of the first. *)
C13_SequentialPairSharesStory ==
    \A p \in ProcIds :
        SequentialPair(p) =>
            /\ calls[p][Len(calls[p])].op # "create_article"
            /\ LastOutcome(p).success =>
                    /\ LastOutcome(p).outcome = "MergedIntoStory"
                    /\ InStoryOfFirst(p)

\* The same, for the second articles whose get_recent_stories call got its
\* answer
SequentialPairSharesStoryWhenFetched ==
    \A p \in ProcIds :
        (SequentialPair(p) /\ Len(calls[p]) = 3 /\ calls[p][2].result = "stories") =>
            /\ calls[p][Len(calls[p])].op # "create_article"
            /\ LastOutcome(p).success =>
                    /\ LastOutcome(p).outcome = "MergedIntoStory"
                    /\ InStoryOfFirst(p)


---------------------------------------------------------------------------
(* The duplicate check of APIClient.  The module that process_article takes
   its storage collaborator from defines one duplicate check,
   APIClient.check_link_exists: its try block is the statement return False,
   so it answers False for every link and never raises. *)

check_link_exists(link) == FALSE

\* process_article with check_link_exists as its duplicate check (lines
\* 825-830)
CheckLinkExists(p) ==
    /\ pc[p] = "link_exists"
    /\ IF check_link_exists(Article(p).url)
       THEN /\ dup' = [dup EXCEPT ![p] = TRUE]
            /\ Answered(p, "true")
            /\ Return(p, FALSE, "Skipped")
       ELSE /\ pc' = [pc EXCEPT ![p] = "get_recent_stories"]
            /\ calls' = [calls EXCEPT ![p] =
                    Append([@ EXCEPT ![Len(@)].result = "false"],
                           Call("get_recent_stories", NoData, None))]
            /\ UNCHANGED <<dup, processed_count, outcomes>>
    /\ UNCHANGED <<shared, elsewhere, articles, idx, recent_stories,
                   matching_story_id, article_data, errors>>

StepWithAPIClient(p) ==
    \/ ProcessArticle(p)
    \/ CheckLinkExists(p)
    \/ GetRecentStoriesOk(p)
    \/ GetRecentStoriesFails(p)
    \/ AddArticleOk(p)
    \/ AddArticleNone(p)
    \/ AddArticleRaises(p)
    \/ CreateArticleOk(p)
    \/ CreateArticleNone(p)
    \/ CreateArticleRaises(p)
    \/ Sleep(p)
    \/ ScrapeSourceReturns(p)

NextWithAPIClient == \E p \in ProcIds : StepWithAPIClient(p)

\* The runs of every batch, the first article of which can be an article
\* that an earlier run has stored
SpecWithAPIClient == InitFair /\ [][NextWithAPIClient]_vars

\* process_article has gone on past its duplicate check and its storage call
\* has not returned
PastDuplicateCheck(p) ==
    pc[p] \in {"get_recent_stories", "add_article_to_story", "create_article"}

(* C14: processing an article whose url is stored already never goes on past
   the duplicate check, so that it ends as Skipped, and the store never holds
   two records of one url. *)
C14_RetryIsSkipped ==
    /\ \A p \in ProcIds : PastDuplicateCheck(p) => Article(p).url \notin Links
    /\ \A i, j \in DOMAIN store : store[i].link = store[j].link => i = j


---------------------------------------------------------------------------
(* A scraper that runs scrape_source again.  self.scraped_urls is created
   with the scraper (line 578) and lives as long as it; run_full_scrape
   calls scrape_source once for every source, and the module-level scraper
   of enhanced_uae_scraper.py, which keeps the same set, serves every
   request to /scraper/run-enhanced. *)

MaxRuns == 2                    \* runs of scrape_source by one scraper
MaxPage == 3                    \* article elements on one page
max_articles_per_source == 2    \* settings.max_articles_per_source

Min(a, b) == IF a <= b THEN a ELSE b

\* The article elements a page can hold, each with the article that
\* extract_articles_from_page makes of it
PageElements ==
    [url : {1, 11}, category : {"economy"}, keywords : {{"metro", "expansion"}}]

Pages == UNION {[1..n -> PageElements] : n \in 0..MaxPage}

(* The loop of extract_articles_from_page from element i on (lines 713-777):
   an element whose url is in scraped_urls is passed over, any other gives an
   article and its url is added to scraped_urls. *)

RECURSIVE ExtractLoop(_, _, _, _)
ExtractLoop(elements, i, found, scraped) ==
    IF i > Len(elements) THEN [articles |-> found, scraped_urls |-> scraped]
    ELSE IF elements[i].url \in scraped
         THEN ExtractLoop(elements, i + 1, found, scraped)
         ELSE ExtractLoop(elements, i + 1, Append(found, elements[i]),
                          scraped \cup {elements[i].url})

\* the elements the loop goes through (line 713)
Sliced(elements) == SubSeq(elements, 1, Min(Len(elements), max_articles_per_source))

\* extract_articles_from_page of a scraper that starts from an empty set
extract_articles_from_pageForgetful(elements, scraped) ==
    ExtractLoop(Sliced(elements), 1, <<>>, {})

extract_articles_from_page(elements, scraped) ==
    ExtractLoop(Sliced(elements), 1, <<>>, scraped)

\* fetch_page returns a page: scrape_source extracts its articles and starts
\* its loop (lines 870-877)
FetchPageOk(p) ==
    /\ pc[p] = "fetch_page"
    /\ \E elements \in Pages :
        LET extracted == extract_articles_from_page(elements, scraped_urls[p])
        IN  /\ page' = [page EXCEPT ![p] = elements]
            /\ articles' = [articles EXCEPT ![p] = extracted.articles]
            /\ scraped_urls' = [scraped_urls EXCEPT ![p] = extracted.scraped_urls]
    /\ idx' = [idx EXCEPT ![p] = 1]
    /\ processed_count' = [processed_count EXCEPT ![p] = 0]
    /\ pc' = [pc EXCEPT ![p] = "loop"]
    /\ UNCHANGED <<shared, text_processor, enhanced_scraper, run, dup, recent_stories,
                   matching_story_id, article_data, calls, errors, outcomes>>

\* fetch_page returns None: scrape_source returns 0 (lines 871-872)
FetchPageNone(p) ==
    /\ pc[p] = "fetch_page"
    /\ page' = [page EXCEPT ![p] = <<>>]
    /\ articles' = [articles EXCEPT ![p] = <<>>]
    /\ idx' = [idx EXCEPT ![p] = 1]
    /\ processed_count' = [processed_count EXCEPT ![p] = 0]
    /\ pc' = [pc EXCEPT ![p] = "done"]
    /\ UNCHANGED <<shared, text_processor, enhanced_scraper, run, scraped_urls, dup,
                   recent_stories, matching_story_id, article_data, calls, errors,
                   outcomes>>

\* the scraper runs scrape_source again
ScrapeSourceAgain(p) ==
    /\ pc[p] = "done"
    /\ run[p] < MaxRuns
    /\ run' = [run EXCEPT ![p] = @ + 1]
    /\ pc' = [pc EXCEPT ![p] = "fetch_page"]
    /\ UNCHANGED <<shared, text_processor, enhanced_scraper, scraped_urls, page,
                   articles, idx, processed_count, dup, recent_stories,
                   matching_story_id, article_data, calls, errors, outcomes>>

\* A new scraper starts its first run; the store is empty or holds one
\* article
InitScraper ==
    /\ minted = InitStoryIds
    /\ similarity_threshold = DefaultThreshold
    /\ store \in {<<>>} \cup SingleArticles
    /\ pc = [p \in ProcIds |-> IF p = 1 THEN "fetch_page" ELSE "idle"]
    /\ scraped_urls = [p \in ProcIds |-> {}]
    /\ page = [p \in ProcIds |-> <<>>]
    /\ run = [p \in ProcIds |-> 1]
    /\ articles = [p \in ProcIds |-> <<>>]
    /\ idx = [p \in ProcIds |-> 1]
    /\ processed_count = [p \in ProcIds |-> 0]
    /\ dup = [p \in ProcIds |-> FALSE]
    /\ recent_stories = [p \in ProcIds |-> <<>>]
    /\ matching_story_id = [p \in ProcIds |-> None]
    /\ article_data = [p \in ProcIds |-> NoData]
    /\ calls = [p \in ProcIds |-> NoCall]
    /\ errors = [p \in ProcIds |-> 0]
    /\ outcomes = [p \in ProcIds |-> <<>>]
    /\ TextProcessorAtRest
    /\ EnhancedScraperAtRest

StepOfScraper(p) ==
    \/ FetchPageOk(p)
    \/ FetchPageNone(p)
    \/ ScrapeSourceAgain(p)
    \/ Step(p)

NextOfScraper == \E p \in ProcIds : StepOfScraper(p)

ScraperSpec == InitScraper /\ [][NextOfScraper]_vars

\* the scraper of process p has processed an article of url u in an earlier
\* run, process_article returned False after a failure, and the store does
\* not hold the article
NotCompleted(p, u) ==
    /\ u \notin Links
    /\ \E k \in DOMAIN outcomes[p] :
        /\ outcomes[p][k].url = u
        /\ outcomes[p][k].outcome = "Failed"

\* scrape_source has just extracted the articles of a page in a later run
JustExtractedAgain(p) == pc[p] = "loop" /\ idx[p] = 1 /\ run[p] > 1

(* C15: when a later run of a scraper finds on its page the url of an
   article whose processing failed in an earlier run and that the store does
   not hold, extract_articles_from_page returns the article again, so that
   the run processes it again. *)
C15_FailedArticleIsExtractedAgain ==
    \A p \in ProcIds :
        JustExtractedAgain(p) =>
            \A i \in DOMAIN Sliced(page[p]) :
                NotCompleted(p, page[p][i].url) =>
                    \E k \in DOMAIN articles[p] : articles[p][k].url = page[p][i].url


---------------------------------------------------------------------------
(* What a run reports *)

\* the value scrape_source returns to its caller (line 886), which
\* run_full_scrape stores under the name of the source (line 904)
ScrapeSourceResult(p) == processed_count[p]

\* the articles of the run of process p that ended with outcome o
CountOf(p, o) == Cardinality({k \in DOMAIN outcomes[p] : outcomes[p][k].outcome = o})

(* C16: the result of a run tells how many of its articles were skipped as
   duplicates and how many failed: two runs that have ended with the same
   result have skipped the same number of articles and have failed on the
   same number of articles. *)
C16_ResultTellsSkippedFromFailed ==
    \A p, q \in ProcIds :
        (/\ pc[p] = "done"
         /\ pc[q] = "done"
         /\ ScrapeSourceResult(p) = ScrapeSourceResult(q)) =>
            /\ CountOf(p, "Skipped") = CountOf(q, "Skipped")
            /\ CountOf(p, "Failed") = CountOf(q, "Failed")


---------------------------------------------------------------------------
(* The text processor on its own: one call of calculate_similarity on two
   keyword sets, with no run of the scraper under way. *)

pipeline ==
    <<shared, scraper, pc, articles, idx, processed_count, dup, recent_stories,
      matching_story_id, article_data, calls, errors, outcomes>>

NoRun ==
    /\ minted = InitStoryIds
    /\ similarity_threshold = DefaultThreshold
    /\ store = <<>>
    /\ pc = [p \in ProcIds |-> "idle"]
    /\ articles = [p \in ProcIds |-> <<>>]
    /\ idx = [p \in ProcIds |-> 1]
    /\ processed_count = [p \in ProcIds |-> 0]
    /\ dup = [p \in ProcIds |-> FALSE]
    /\ recent_stories = [p \in ProcIds |-> <<>>]
    /\ matching_story_id = [p \in ProcIds |-> None]
    /\ article_data = [p \in ProcIds |-> NoData]
    /\ calls = [p \in ProcIds |-> NoCall]
    /\ errors = [p \in ProcIds |-> 0]
    /\ outcomes = [p \in ProcIds |-> <<>>]
    /\ Extracted
    /\ EnhancedScraperAtRest

KeywordSets == SUBSET {"metro", "expansion", "phase", "tram"}

InitSimilarity ==
    /\ NoRun
    /\ input_text = <<>>
    /\ output_keywords = NotReturned
    /\ input_keywords1 \in KeywordSets
    /\ input_keywords2 \in KeywordSets
    /\ output_similarity = NotReturned

CalculateSimilarity ==
    /\ output_similarity = NotReturned
    /\ output_similarity' = calculate_similarity(input_keywords1, input_keywords2)
    /\ UNCHANGED <<pipeline, enhanced_scraper, input_text, output_keywords,
                   input_keywords1, input_keywords2>>

SimilaritySpec == InitSimilarity /\ [][CalculateSimilarity]_vars

SimilarityReturned == output_similarity # NotReturned

(* C17: calculate_similarity(A, B) is the size of the intersection of A and
   B divided by the size of their union when both are non-empty, and 0.0
   when either is empty; it never divides by zero and its result lies
   between 0.0 and 1.0. *)
C17_JaccardInUnitInterval ==
    SimilarityReturned =>
        LET A == input_keywords1
            B == input_keywords2
        IN  /\ output_similarity[2] > 0
            /\ (A # {} /\ B # {}) =>
                    output_similarity = <<Cardinality(A \cap B), Cardinality(A \cup B)>>
            /\ (A = {} \/ B = {}) => Eq(output_similarity, Zero)
            /\ Geq(output_similarity, Zero)
            /\ Geq(One, output_similarity)

\* calculate_similarity has returned a value strictly between 0.0 and 1.0
C17_Witness ==
    /\ SimilarityReturned
    /\ Gt(output_similarity, Zero)
    /\ Gt(One, output_similarity)

(* C18: calculate_similarity(A, B) = calculate_similarity(B, A) for all
   keyword sets A and B, empty ones included. *)
C18_Symmetric ==
    SimilarityReturned =>
        Eq(output_similarity, calculate_similarity(input_keywords2, input_keywords1))

\* calculate_similarity has returned for two overlapping sets of different
\* sizes
C18_Witness ==
    /\ SimilarityReturned
    /\ input_keywords1 \cap input_keywords2 # {}
    /\ Cardinality(input_keywords1) # Cardinality(input_keywords2)

(* C19: calculate_similarity(A, A) = 1.0 for every non-empty keyword set A. *)
C19_SelfSimilarityIsOne ==
    (SimilarityReturned /\ input_keywords1 = input_keywords2 /\ input_keywords1 # {}) =>
        Eq(output_similarity, One)

\* calculate_similarity has returned for two equal sets of several keywords
C19_Witness ==
    /\ SimilarityReturned
    /\ input_keywords1 = input_keywords2
    /\ Cardinality(input_keywords1) >= 2


---------------------------------------------------------------------------
(* TextProcessor.extract_keywords.  A text is a sequence of characters, each
   a string of length one; a word is a text.  The characters are those of
   ASCII: for them str.lower, \w, \s and str.isdigit are as below. *)

UpperCase == <<"A", "B", "C", "D", "E", "F", "G", "H", "I", "J", "K", "L", "M",
              "N", "O", "P", "Q", "R", "S", "T", "U", "V", "W", "X", "Y", "Z">>
LowerCase == <<"a", "b", "c", "d", "e", "f", "g", "h", "i", "j", "k", "l", "m",
              "n", "o", "p", "q", "r", "s", "t", "u", "v", "w", "x", "y", "z">>
Digits == {"0", "1", "2", "3", "4", "5", "6", "7", "8", "9"}
Whitespace == {" ", "\t", "\n", "\r"}
WordChars == SetOf(UpperCase) \cup SetOf(LowerCase) \cup Digits \cup {"_"}

\* the argument None
NoneText == <<"None">>

\* self.stop_words of news_scraper.py (lines 516-536)
english_stop_words ==
    {
     <<"t", "h", "e">>, <<"a">>, <<"a", "n">>, <<"a", "n", "d">>, <<"o", "r">>,
     <<"b", "u", "t">>, <<"i", "n">>, <<"o", "n">>, <<"a", "t">>, <<"t", "o">>,
     <<"f", "o", "r">>, <<"o", "f">>, <<"w", "i", "t", "h">>, <<"b", "y">>,
     <<"i", "s">>, <<"a", "r", "e">>, <<"w", "a", "s">>, <<"w", "e", "r", "e">>,
     <<"b", "e">>, <<"b", "e", "e", "n">>, <<"b", "e", "i", "n", "g">>,
     <<"h", "a", "v", "e">>, <<"h", "a", "s">>, <<"h", "a", "d">>, <<"d", "o">>,
     <<"d", "o", "e", "s">>, <<"d", "i", "d">>, <<"w", "i", "l", "l">>,
     <<"w", "o", "u", "l", "d">>, <<"c", "o", "u", "l", "d">>,
     <<"s", "h", "o", "u", "l", "d">>, <<"m", "a", "y">>, <<"m", "i", "g", "h", "t">>,
     <<"m", "u", "s", "t">>, <<"t", "h", "i", "s">>, <<"t", "h", "a", "t">>,
     <<"t", "h", "e", "s", "e">>, <<"t", "h", "o", "s", "e">>, <<"i">>,
     <<"y", "o", "u">>, <<"h", "e">>, <<"s", "h", "e">>, <<"i", "t">>, <<"w", "e">>,
     <<"t", "h", "e", "y">>, <<"m", "e">>, <<"h", "i", "m">>, <<"h", "e", "r">>,
     <<"u", "s">>, <<"t", "h", "e", "m">>, <<"m", "y">>, <<"y", "o", "u", "r">>,
     <<"h", "i", "s">>, <<"i", "t", "s">>, <<"o", "u", "r">>,
     <<"t", "h", "e", "i", "r">>
    }

news_stop_words ==
    {
     <<"n", "e", "w", "s">>, <<"r", "e", "p", "o", "r", "t">>,
     <<"r", "e", "p", "o", "r", "t", "s">>, <<"s", "a", "y", "s">>,
     <<"s", "a", "i", "d">>, <<"a", "c", "c", "o", "r", "d", "i", "n", "g">>,
     <<"s", "o", "u", "r", "c", "e", "s">>, <<"b", "r", "e", "a", "k", "i", "n", "g">>,
     <<"l", "a", "t", "e", "s", "t">>, <<"u", "p", "d", "a", "t", "e">>,
     <<"t", "o", "d", "a", "y">>, <<"y", "e", "s", "t", "e", "r", "d", "a", "y">>,
     <<"n", "e", "w">>, <<"f", "i", "r", "s", "t">>,
     <<"a", "n", "n", "o", "u", "n", "c", "e", "s">>,
     <<"a", "n", "n", "o", "u", "n", "c", "e", "d">>,
     <<"r", "e", "u", "t", "e", "r", "s">>,
     <<"b", "l", "o", "o", "m", "b", "e", "r", "g">>,
     <<"a", "s", "s", "o", "c", "i", "a", "t", "e", "d">>, <<"p", "r", "e", "s", "s">>
    }

regional_stop_words ==
    {
     <<"u", "a", "e">>, <<"d", "u", "b", "a", "i">>, <<"a", "b", "u">>,
     <<"d", "h", "a", "b", "i">>, <<"e", "m", "i", "r", "a", "t", "e", "s">>,
     <<"g", "u", "l", "f">>, <<"m", "i", "d", "d", "l", "e">>, <<"e", "a", "s", "t">>,
     <<"m", "e", "n", "a">>, <<"a", "r", "a", "b">>, <<"a", "r", "a", "b", "i", "c">>,
     <<"r", "e", "g", "i", "o", "n">>, <<"r", "e", "g", "i", "o", "n", "a", "l">>
    }

stop_words == english_stop_words \cup news_stop_words \cup regional_stop_words

\* self.stop_words of enhanced_uae_scraper.py (lines 460-464)
enhanced_stop_words ==
    {
     <<"t", "h", "e">>, <<"a">>, <<"a", "n">>, <<"a", "n", "d">>, <<"o", "r">>,
     <<"b", "u", "t">>, <<"i", "n">>, <<"o", "n">>, <<"a", "t">>, <<"t", "o">>,
     <<"f", "o", "r">>, <<"o", "f">>, <<"w", "i", "t", "h">>, <<"n", "e", "w", "s">>,
     <<"r", "e", "p", "o", "r", "t">>, <<"s", "a", "i", "d">>, <<"s", "a", "y", "s">>,
     <<"n", "e", "w">>, <<"f", "i", "r", "s", "t">>, <<"l", "a", "t", "e", "s", "t">>,
     <<"b", "r", "e", "a", "k", "i", "n", "g">>, <<"u", "a", "e">>,
     <<"d", "u", "b", "a", "i">>, <<"a", "b", "u">>, <<"d", "h", "a", "b", "i">>,
     <<"e", "m", "i", "r", "a", "t", "e", "s">>
    }

min_length == 3

LowerCharAsIs(c) == c

\* str.lower
LowerChar(c) ==
    IF c \in SetOf(UpperCase)
    THEN LowerCase[CHOOSE i \in DOMAIN UpperCase : UpperCase[i] = c]
    ELSE c

lower(text) == [i \in DOMAIN text |-> LowerChar(text[i])]

\* re.sub(r'[^\w\s]', ' ', text)
Clean(text) ==
    [i \in DOMAIN text |-> IF text[i] \in WordChars \cup Whitespace THEN text[i] ELSE " "]

\* re.sub(r'\s+', ' ', text)
RECURSIVE Collapse(_)
Collapse(text) ==
    IF text = <<>> THEN <<>>
    ELSE IF Head(text) \notin Whitespace THEN <<Head(text)>> \o Collapse(Tail(text))
    ELSE IF Len(text) > 1 /\ text[2] \in Whitespace THEN Collapse(Tail(text))
    ELSE <<" ">> \o Collapse(Tail(text))

\* str.strip
RECURSIVE strip(_)
strip(text) ==
    IF text = <<>> THEN <<>>
    ELSE IF Head(text) \in Whitespace THEN strip(Tail(text))
    ELSE IF text[Len(text)] \in Whitespace THEN strip(SubSeq(text, 1, Len(text) - 1))
    ELSE text

\* str.split(): the maximal runs of characters that are not whitespace, from
\* position i on, word being the run that ends before i
RECURSIVE SplitLoop(_, _, _)
SplitLoop(text, i, word) ==
    IF i > Len(text) THEN (IF word = <<>> THEN <<>> ELSE <<word>>)
    ELSE IF text[i] \in Whitespace
         THEN (IF word = <<>> THEN <<>> ELSE <<word>>) \o SplitLoop(text, i + 1, <<>>)
         ELSE SplitLoop(text, i + 1, Append(word, text[i]))

split(text) == SplitLoop(text, 1, <<>>)

\* str.isdigit
isdigit(word) == word # <<>> /\ \A i \in DOMAIN word : word[i] \in Digits

\* re.match(r'^[0-9]+$', word)
MatchesDigits(word) == word # <<>> /\ \A i \in DOMAIN word : word[i] \in Digits

\* the test without the stop words
IsKeywordOfAnyWord(word, stops) ==
    /\ Len(word) >= min_length
    /\ ~isdigit(word)
    /\ ~MatchesDigits(word)

\* the test of lines 553-556
IsKeyword(word, stops) ==
    /\ Len(word) >= min_length
    /\ word \notin stops
    /\ ~isdigit(word)
    /\ ~MatchesDigits(word)

\* what a call did: it raised, or it returned the set keywords
Raised == [raised |-> TRUE, keywords |-> {}]
ReturnedSet(S) == [raised |-> FALSE, keywords |-> S]

\* lines 545-560 of extract_keywords; None has no method lower
KeywordsOf(text, stops) ==
    IF text = NoneText THEN Raised
    ELSE LET words == split(strip(Collapse(Clean(lower(text)))))
             kept == {i \in DOMAIN words : IsKeyword(words[i], stops)}
         IN  ReturnedSet({strip(words[i]) : i \in kept})

\* extract_keywords without lines 541-542
extract_keywordsUnguarded(text) == KeywordsOf(text, stop_words)

extract_keywords(text) ==
    IF text = NoneText \/ text = <<>> THEN ReturnedSet({})
    ELSE KeywordsOf(text, stop_words)

\* extract_keywords of enhanced_uae_scraper.py (lines 466-488): for the
\* characters of ASCII its pattern removes what the pattern of news_scraper.py
\* removes; an exception of its try block is logged and gives the empty set
extract_keywords_enhanced(text) ==
    IF text = NoneText \/ text = <<>> THEN ReturnedSet({})
    ELSE LET done == KeywordsOf(text, enhanced_stop_words)
         IN  IF done.raised THEN ReturnedSet({}) ELSE done


(* One call of extract_keywords, of either text processor, on a text of a few
   characters (a capital and two small letters that spell a stop word, a
   digit, the underscore, the blank and a punctuation mark) or on a longer
   text. *)

MaxText == 5    \* characters of a text

Chars == {"T", "h", "e", "1", "_", " ", "."}

\* the headline of the keyword extractor's worked example
Headline ==
    <<"U", "A", "E", " ", "A", "n", "n", "o", "u", "n", "c", "e", "s", " ", "N", "e",
      "w", " ", "E", "c", "o", "n", "o", "m", "i", "c", " ", "P", "o", "l", "i", "c",
      "y", " ", "T", "o", "d", "a", "y">>

\* longer texts, of a headline and a summary
SampleTexts ==
    {
        Headline,
        <<"M", "e", "t", "r", "o", " ", "p", "h", "a", "s", "e", " ", "2", ":", " ",
          "T", "h", "e", " ", "n", "e", "w", " ", "t", "r", "a", "m">>,
        <<"T", "h", "e", " ", "T", "h", "e", "e", " ", "1", "1", ",", " ", "e", "_",
          "1">>,
        <<" ", " ", "2", "0", "2", "4", " ", "R", "E", "P", "O", "R", "T", ".", ".",
          ".">>
    }

Texts == {NoneText} \cup SampleTexts \cup UNION {[1..n -> Chars] : n \in 0..MaxText}

InitKeywords ==
    /\ NoRun
    /\ input_text \in Texts
    /\ output_keywords = NotReturned
    /\ input_keywords1 = {}
    /\ input_keywords2 = {}
    /\ output_similarity = NotReturned

\* the call of the text processor of news_scraper.py
ExtractKeywords ==
    /\ output_keywords = NotReturned
    /\ output_keywords' =
            <<[stop_words |-> stop_words, did |-> extract_keywords(input_text)]>>
    /\ UNCHANGED <<pipeline, enhanced_scraper, input_text, input_keywords1,
                   input_keywords2, output_similarity>>

\* the call of the text processor of enhanced_uae_scraper.py
ExtractKeywordsEnhanced ==
    /\ output_keywords = NotReturned
    /\ output_keywords' =
            <<[stop_words |-> enhanced_stop_words,
               did |-> extract_keywords_enhanced(input_text)]>>
    /\ UNCHANGED <<pipeline, enhanced_scraper, input_text, input_keywords1,
                   input_keywords2, output_similarity>>

NextKeywords == ExtractKeywords \/ ExtractKeywordsEnhanced

KeywordsSpec == InitKeywords /\ [][NextKeywords]_vars

\* the tokens of a text: the maximal runs of word characters of the text in
\* lower case
Tokens(t) ==
    LET l == [i \in DOMAIN t |-> LowerChar(t[i])]
        Run(i, j) == \A k \in i..j : l[k] \in WordChars
    IN  {SubSeq(l, i, j) : <<i, j>> \in
            {ij \in (DOMAIN l) \X (DOMAIN l) :
                /\ ij[1] <= ij[2]
                /\ Run(ij[1], ij[2])
                /\ ij[1] = 1 \/ l[ij[1] - 1] \notin WordChars
                /\ ij[2] = Len(l) \/ l[ij[2] + 1] \notin WordChars}}

IsLowercase(w) == \A i \in DOMAIN w : w[i] \notin SetOf(UpperCase)
PurelyNumeric(w) == \A i \in DOMAIN w : w[i] \in Digits

\* what the spec keeps of the tokens: those of length 3 or more that are not
\* purely numeric and not stop words
Significant(w, stops) ==
    /\ IsLowercase(w)
    /\ Len(w) >= 3
    /\ ~PurelyNumeric(w)
    /\ w \notin stops

(* C20: extract_keywords never raises, whatever the text, None and the empty
   text included, for which it returns the empty set; every token it returns
   is in lower case, has three characters or more, is not purely numeric and
   is not a stop word, and it returns every token of the text that is so. *)
C20_KeywordsTotalAndFiltered ==
    output_keywords # NotReturned =>
        LET call == output_keywords[1]
        IN  /\ ~call.did.raised
            /\ input_text \in {NoneText, <<>>} => call.did.keywords = {}
            /\ \A w \in call.did.keywords : Significant(w, call.stop_words)
            /\ \A w \in Tokens(input_text) :
                    Significant(w, call.stop_words) => w \in call.did.keywords

\* extract_keywords has returned a token of a text that also holds a stop
\* word in capitals, a number and punctuation
C20_Witness ==
    /\ output_keywords # NotReturned
    /\ output_keywords[1].did.keywords # {}
    /\ \E w \in Tokens(input_text) : w \in output_keywords[1].stop_words
    /\ \E w \in Tokens(input_text) : w \notin output_keywords[1].did.keywords

(***************************************************************************)
(* The worked example of the keyword extractor.                            *)
(***************************************************************************)
OfHeadline ==
    /\ output_keywords # NotReturned
    /\ input_text = Headline
    /\ ~output_keywords[1].did.raised

\* C21 (as stated): extract_keywords of the headline "UAE Announces New
\* Economic Policy Today" holds none of "uae", "new", "today" and holds all of
\* "announces", "economic", "policy".
C21_HeadlineKeywords ==
    OfHeadline =>
        /\ output_keywords[1].did.keywords \cap
                {<<"u", "a", "e">>,
                 <<"n", "e", "w">>,
                 <<"t", "o", "d", "a", "y">>} = {}
        /\ {<<"a", "n", "n", "o", "u", "n", "c", "e", "s">>,
            <<"e", "c", "o", "n", "o", "m", "i", "c">>,
            <<"p", "o", "l", "i", "c", "y">>}
                \subseteq output_keywords[1].did.keywords

\* C21 (amended): of the headline, the text processor of news_scraper returns
\* exactly {"economic", "policy"} ("announces" is one of its stop words), and
\* the text processor of enhanced_uae_scraper returns exactly {"announces",
\* "economic", "policy", "today"} (neither is one of its stop words).
C21_HeadlineKeywordsPerStopWords ==
    OfHeadline =>
        /\ (output_keywords[1].stop_words = stop_words) =>
                output_keywords[1].did.keywords =
                    {<<"e", "c", "o", "n", "o", "m", "i", "c">>,
                     <<"p", "o", "l", "i", "c", "y">>}
        /\ (output_keywords[1].stop_words = enhanced_stop_words) =>
                output_keywords[1].did.keywords =
                    {<<"a", "n", "n", "o", "u", "n", "c", "e", "s">>,
                     <<"e", "c", "o", "n", "o", "m", "i", "c">>,
                     <<"p", "o", "l", "i", "c", "y">>,
                     <<"t", "o", "d", "a", "y">>}

C21_Witness ==
    /\ OfHeadline
    /\ output_keywords[1].stop_words = stop_words
    /\ output_keywords[1].did.keywords =
            {<<"e", "c", "o", "n", "o", "m", "i", "c">>,
             <<"p", "o", "l", "i", "c", "y">>}

---------------------------------------------------------------------------
(* From the text of a page element to the stored article: the scraper
   extracts the keywords of headline and summary (lines 762-763), makes the
   article of them (lines 766-774) and process_article takes it through the
   pipeline. *)

\* a keyword as the article and the records hold it
RECURSIVE str(_)
str(word) == IF word = <<>> THEN "" ELSE Head(word) \o str(Tail(word))

\* headline and summary of the elements: the summary may be empty
RawKeywords ==
    <<"D", "u", "b", "a", "i", " ", "m", "e", "t", "r", "o", " ", "e", "x", "p", "a",
      "n", "s", "i", "o", "n", " ", "a", "n", "n", "o", "u", "n", "c", "e", "d", " ">>

ElementTexts ==
    {
        RawKeywords,
        <<"M", "e", "t", "r", "o", " ", "p", "h", "a", "s", "e", " ", "t", "w", "o",
          ":", " ", "t", "h", "e", " ", "n", "e", "w", " ", "t", "r", "a", "m">>,
        <<"B", "r", "e", "a", "k", "i", "n", "g", " ", "n", "e", "w", "s", " ">>
    }

StoryArticles ==
    {StoreOf([i \in {1} |-> [category |-> c, keywords |-> k, story_id |-> 1]]) :
        c \in Categories, k \in StoryKeywordSets}

InitEndToEnd ==
    /\ minted = InitStoryIds
    /\ similarity_threshold \in Thresholds
    /\ store \in {<<>>} \cup StoryArticles
    /\ pc = [p \in ProcIds |-> IF p = 1 THEN "extract" ELSE "idle"]
    /\ scraped_urls = [p \in ProcIds |-> {}]
    /\ page = [p \in ProcIds |-> <<>>]
    /\ run = [p \in ProcIds |-> 1]
    /\ articles = [p \in ProcIds |-> <<>>]
    /\ idx = [p \in ProcIds |-> 1]
    /\ processed_count = [p \in ProcIds |-> 0]
    /\ dup = [p \in ProcIds |-> FALSE]
    /\ recent_stories = [p \in ProcIds |-> <<>>]
    /\ matching_story_id = [p \in ProcIds |-> None]
    /\ article_data = [p \in ProcIds |-> NoData]
    /\ calls = [p \in ProcIds |-> NoCall]
    /\ errors = [p \in ProcIds |-> 0]
    /\ outcomes = [p \in ProcIds |-> <<>>]
    /\ input_text \in ElementTexts
    /\ output_keywords = NotReturned
    /\ input_keywords1 = {}
    /\ input_keywords2 = {}
    /\ output_similarity = NotReturned
    /\ EnhancedScraperAtRest

\* extract_articles_from_page makes the article of the one element of the
\* page, of its url and of the category determine_category gives it
ExtractArticle(p) ==
    /\ pc[p] = "extract"
    /\ LET did == extract_keywords(input_text)
       IN  /\ output_keywords' = <<[stop_words |-> stop_words, did |-> did]>>
           /\ \E u \in {1, 11}, c \in Categories :
                /\ articles' = [articles EXCEPT ![p] =
                        <<[url |-> u, category |-> c,
                           keywords |-> {str(w) : w \in did.keywords}]>>]
                /\ scraped_urls' = [scraped_urls EXCEPT ![p] = @ \cup {u}]
    /\ page' = [page EXCEPT ![p] = articles'[p]]
    /\ pc' = [pc EXCEPT ![p] = "loop"]
    /\ UNCHANGED <<shared, enhanced_scraper, run, idx, processed_count, dup,
                   recent_stories, matching_story_id, article_data, calls, errors,
                   outcomes, input_text, input_keywords1, input_keywords2,
                   output_similarity>>

StepEndToEnd(p) ==
    \/ ExtractArticle(p)
    \/ Step(p)

NextEndToEnd == \E p \in ProcIds : StepEndToEnd(p)

EndToEndSpec == InitEndToEnd /\ [][NextEndToEnd]_vars

\* the article of the raw keywords dubai, metro, expansion, announced, of
\* category economy, has been submitted with threshold 0.4 against a list of
\* recent stories that holds one economy story of keywords metro, expansion,
\* phase
Example(p) ==
    /\ input_text = RawKeywords
    /\ similarity_threshold = DefaultThreshold
    /\ Submitted(p)
    /\ Article(p).category = "economy"
    /\ Len(recent_stories[p]) = 1
    /\ recent_stories[p][1].category = "economy"
    /\ SetOf(recent_stories[p][1].keywords) = {"metro", "expansion", "phase"}

\* C22 (as stated): the article's keyword set after the filter is {metro,
\* expansion, announced}, its similarity to the story is 2/4, and the
\* pipeline merges it into that story.
C22_EndToEndExample ==
    \A p \in ProcIds :
        Example(p) =>
            /\ Article(p).keywords = {"metro", "expansion", "announced"}
            /\ Eq(Similarity(p, 1), <<2, 4>>)
            /\ matching_story_id[p] = recent_stories[p][1].story_id
            /\ AppendedOnce(p)

\* C22 (amended): the filter drops "dubai" and "announced", both stop words:
\* the article's keyword set is {metro, expansion}, its similarity to the
\* story is 2/3, which reaches 0.4, and the pipeline appends the article to
\* that story; the outcome is MergedIntoStory when add_article_to_story
\* returns an identifier.
C22_EndToEndExampleFiltered ==
    \A p \in ProcIds :
        Example(p) =>
            /\ Article(p).keywords = {"metro", "expansion"}
            /\ Similarity(p, 1) = <<2, 3>>
            /\ matching_story_id[p] = recent_stories[p][1].story_id
            /\ AppendedOnce(p)
            /\ (Returned(p) /\ calls[p][3].result = "id") =>
                    LastOutcome(p).outcome = "MergedIntoStory"

C22_Witness ==
    \E p \in ProcIds :
        /\ Example(p)
        /\ Returned(p)
        /\ LastOutcome(p).outcome = "MergedIntoStory"
        /\ \E i \in DOMAIN store :
            /\ store[i].link = Article(p).url
            /\ store[i].story_id = recent_stories[p][1].story_id

---------------------------------------------------------------------------
(* C23: for one article the collaborator calls come in a fixed order: the
   duplicate check has answered before the lookup of the recent stories
   starts, the lookup has answered before create_article or
   add_article_to_story is called, and no write is issued for an article
   whose duplicate check has not answered false. *)
LookupResults == {"stories", "failed"}

C23_CallsInOrder ==
    \A p \in ProcIds :
        /\ Len(calls[p]) <= 3
        /\ \A i \in DOMAIN calls[p] :
            /\ (i < Len(calls[p])) => calls[p][i].result # "pending"
            /\ (i = 1) => calls[p][i].op = "link_exists"
            /\ (i = 2) =>
                /\ calls[p][i].op = "get_recent_stories"
                /\ calls[p][1].result = "false"
            /\ (i = 3) =>
                /\ calls[p][i].op \in WriteOps
                /\ calls[p][1].result = "false"
                /\ calls[p][2].result \in LookupResults
            /\ (calls[p][i].op \in WriteOps) => i = 3

C23_Witness ==
    \E p \in ProcIds :
        /\ Returned(p)
        /\ Len(calls[p]) = 3
        /\ calls[p][1].result = "false"
        /\ calls[p][2].result = "stories"
        /\ calls[p][3].op = "add_article_to_story"

---------------------------------------------------------------------------
(* C24: for every threshold between 0.0 and 1.0 and every list of recent
   stories, when a story of the article's category has a similarity that
   reaches the threshold, find_matching_story returns a story_id and not
   None; a similarity equal to the threshold is enough, also when the
   threshold is 0.0. *)
C24_EligibleIsMatched ==
    \A p \in ProcIds :
        (Decided(p) /\ Eligible(p) # {}) => matching_story_id[p] # None

\* the same, for the stories whose similarity is above 0.0
EligibleAboveZeroIsMatched ==
    \A p \in ProcIds :
        (Decided(p) /\ EligibleAboveZero(p) # {}) => matching_story_id[p] # None

---------------------------------------------------------------------------
(* C25: an article is compared only with the keyword set of the founding
   (primary) article of each story: the list of recent stories holds one
   entry for a story, and the keywords of the articles merged into a story
   later are never what a match rests on. *)

\* the lookup of process p has answered with the stories of the store, which
\* no write of p has changed yet
Fetched(p) ==
    /\ Decided(p)
    /\ calls[p][2].result = "stories"

\* the stored founding articles of story id
FoundingArticles(id) ==
    {k \in DOMAIN store : store[k].story_id = id /\ store[k].is_primary_article}

C25_OnlyFoundingArticlesCompared ==
    \A p \in ProcIds :
        Fetched(p) =>
            /\ \A i, j \in DOMAIN recent_stories[p] :
                (i # j) => recent_stories[p][i].story_id # recent_stories[p][j].story_id
            /\ \A i \in DOMAIN recent_stories[p] :
                \E k \in FoundingArticles(recent_stories[p][i].story_id) :
                    store[k].keywords = recent_stories[p][i].keywords
            /\ (matching_story_id[p] # None) =>
                \E k \in FoundingArticles(matching_story_id[p]) :
                    Geq(calculate_similarity(Article(p).keywords, SetOf(store[k].keywords)),
                        similarity_threshold)

---------------------------------------------------------------------------
(* The recency horizon.  Times are hours before the time of the lookup: the
   age of a stored article is the age of its timestamp, and the parameter
   since of the request is the age of the cutoff.  An article written in the
   run has the age 0.  The parameter limit of the request, 500, is far above
   the sizes of the stores here and is left out. *)

\* settings.clustering_hours_back
clustering_hours_back == 24

\* the ages of the stored articles: inside the horizon and older
Ages == {1, 48}

AgeOf(a) == IF "age" \in DOMAIN a THEN a.age ELSE 0

\* line 81: cutoff_time is utcnow() itself; hours_back is not used
cutoff_time(hours_back) == 0

\* lines 84-87
params(hours_back) == [since |-> cutoff_time(hours_back)]

\* the articles an API that filters by time returns for the parameter since
Since(data, since) == SelectSeq(data, LAMBDA a : AgeOf(a) <= since)

\* get_recent_stories gets a 200 response of an API that supports the
\* parameter since (lines 84-105)
GetRecentStoriesSince(p) ==
    /\ pc[p] = "get_recent_stories"
    /\ Branch(p, StoriesOf(Since(store, params(clustering_hours_back).since)),
              "stories")
    /\ UNCHANGED <<elsewhere, similarity_threshold, store, articles, idx,
                   processed_count, dup, errors, outcomes>>

Aged(s, age) ==
    [k \in DOMAIN s |->
        [link |-> s[k].link,
         category |-> s[k].category,
         keywords |-> s[k].keywords,
         story_id |-> s[k].story_id,
         is_primary_article |-> s[k].is_primary_article,
         age |-> age[k]]]

AgedStores ==
    UNION {{Aged(s, age) : age \in [DOMAIN s -> Ages]} :
        s \in {t \in InitStores :
                \A k \in DOMAIN t : SetOf(t[k].keywords) = {"metro", "expansion"}}}

InitHorizon ==
    /\ minted = InitStoryIds
    /\ similarity_threshold = DefaultThreshold
    /\ store \in AgedStores
    /\ \E b \in Batches : Len(b) = 1 /\ InitLocals(b)

\* GetRecentStoriesOk is the response of an API that ignores the parameter
StepHorizon(p) ==
    \/ ProcessArticle(p)
    \/ LinkExistsTrue(p)
    \/ LinkExistsFalse(p)
    \/ LinkExistsRaises(p)
    \/ GetRecentStoriesOk(p)
    \/ GetRecentStoriesSince(p)
    \/ GetRecentStoriesFails(p)
    \/ AddArticleOk(p)
    \/ AddArticleNone(p)
    \/ AddArticleRaises(p)
    \/ CreateArticleOk(p)
    \/ CreateArticleNone(p)
    \/ CreateArticleRaises(p)
    \/ Sleep(p)
    \/ ScrapeSourceReturns(p)

NextHorizon == \E p \in ProcIds : StepHorizon(p)

HorizonSpec == InitHorizon /\ [][NextHorizon]_vars

(* C26: the lookup made for an article requests the window that starts
   clustering_hours_back hours before the current time, and the stories
   offered to the matcher are those of the stored articles inside that
   window: no older story is offered or matched, and every story inside it
   is offered. *)
C26_WindowIsTheHorizon ==
    \A p \in ProcIds :
        Fetched(p) =>
            /\ params(clustering_hours_back).since = clustering_hours_back
            /\ recent_stories[p] = StoriesOf(Since(store, clustering_hours_back))

\* an article is matched with a story all of whose articles are older than
\* the horizon
MatchedBeyondHorizon ==
    \E p \in ProcIds :
        /\ Fetched(p)
        /\ matching_story_id[p] # None
        /\ \A k \in DOMAIN store :
            (store[k].story_id = matching_story_id[p])
                => AgeOf(store[k]) > clustering_hours_back

\* a story inside the horizon is not offered to the matcher
NotOfferedInsideHorizon ==
    \E p \in ProcIds :
        /\ Fetched(p)
        /\ recent_stories[p] = <<>>
        /\ \E k \in DOMAIN store :
            store[k].story_id # None /\ AgeOf(store[k]) <= clustering_hours_back

---------------------------------------------------------------------------
(* C27: find_matching_story is a decision over the data it is given: it
   performs no I/O, it does not fetch the recent stories itself, and it
   changes neither the article nor the stories nor the configuration. *)

\* process_article has called find_matching_story, which has not returned
InFindMatchingStory(p) == pc[p] = "get_recent_stories"

\* a call of a collaborator by process p is under way
InFlight(p) ==
    /\ calls[p] # NoCall
    /\ calls[p][Len(calls[p])].result = "pending"

C27_MatcherDoesNoIO ==
    \A p \in ProcIds : InFindMatchingStory(p) => ~InFlight(p)

\* the part of C27 about mutation: the step that returns from
\* find_matching_story leaves the article, the store and the threshold as
\* they are
MatcherMutatesNothing ==
    [][\A p \in ProcIds :
        InFindMatchingStory(p) =>
            /\ articles'[p] = articles[p]
            /\ store' = store
            /\ similarity_threshold' = similarity_threshold]_vars

---------------------------------------------------------------------------
(* C28: within one scraper the set scraped_urls only grows; after any
   sequence of extractions it is the set of the urls of all the articles the
   extractions have returned; no extraction returns an article whose url an
   earlier extraction of the scraper returned, so that the articles handed
   to the pipeline have pairwise distinct urls. *)

UrlsOf(found) == {found[k].url : k \in DOMAIN found}

\* the urls of the articles the extractions of process p have returned: the
\* articles of the current run and the articles processed in the runs before
ReturnedUrls(p) ==
    UrlsOf(articles[p]) \cup {outcomes[p][k].url : k \in DOMAIN outcomes[p]}

DistinctUrls(found) ==
    \A j, k \in DOMAIN found : (j # k) => found[j].url # found[k].url

C28_ScrapedUrlsAreTheReturnedUrls ==
    /\ [](\A p \in ProcIds :
            /\ scraped_urls[p] = ReturnedUrls(p)
            /\ DistinctUrls(articles[p]))
    /\ [][\A p \in ProcIds :
            /\ scraped_urls[p] \subseteq scraped_urls'[p]
            /\ (pc[p] = "fetch_page") =>
                /\ UrlsOf(articles'[p]) \cap scraped_urls[p] = {}
                /\ scraped_urls'[p] = scraped_urls[p] \cup UrlsOf(articles'[p])]_vars

\* a later run has extracted a new article from a page that also holds an
\* article of an earlier run
C28_Witness ==
    \E p \in ProcIds :
        /\ run[p] > 1
        /\ pc[p] = "loop"
        /\ articles[p] # <<>>
        /\ UrlsOf(page[p]) \cap {outcomes[p][k].url : k \in DOMAIN outcomes[p]} # {}
        /\ UrlsOf(articles[p]) \cap {outcomes[p][k].url : k \in DOMAIN outcomes[p]} = {}

---------------------------------------------------------------------------
(* C29: the count scrape_source returns is the number of the articles of its
   batch for which the storage write returned an identifier: process_article
   returns true exactly when a create or an append succeeded, duplicates and
   failures are not counted, and the count is never above the number of
   extracted articles, which is at most max_articles_per_source. *)

\* the write of process p is answered with an identifier in this step
WriteAnswered(p) ==
    /\ pc[p] \in {"add_article_to_story", "create_article"}
    /\ calls'[p][3].result = "id"

C29_CountIsTheWritesAnswered ==
    /\ [](\A p \in ProcIds :
            /\ processed_count[p] <= Len(articles[p])
            /\ Len(articles[p]) <= max_articles_per_source
            /\ UrlsOf(articles[p]) \subseteq UrlsOf(Sliced(page[p]))
            /\ (pc[p] = "done") =>
                ScrapeSourceResult(p) =
                    Cardinality({k \in DOMAIN outcomes[p] :
                        /\ k > Len(outcomes[p]) - Len(articles[p])
                        /\ outcomes[p][k].success}))
    /\ [][\A p \in ProcIds :
            (pc[p] # "fetch_page") =>
                IF WriteAnswered(p)
                THEN /\ processed_count'[p] = processed_count[p] + 1
                     /\ Len(store') = Len(store) + 1
                     /\ store'[Len(store')].link = Article(p).url
                     /\ outcomes'[p][Len(outcomes'[p])].success
                ELSE /\ processed_count'[p] = processed_count[p]
                     /\ (Len(outcomes'[p]) > Len(outcomes[p]))
                            => ~outcomes'[p][Len(outcomes'[p])].success]_vars

\* a run over a page of more than max_articles_per_source elements has ended:
\* an element beyond the slice was not extracted, the run has counted one
\* written article, and an article of the scraper was not counted
C29_Witness ==
    \E p \in ProcIds :
        /\ pc[p] = "done"
        /\ Len(page[p]) > max_articles_per_source
        /\ UrlsOf(page[p]) # UrlsOf(Sliced(page[p]))
        /\ ScrapeSourceResult(p) = 1
        /\ \E k \in DOMAIN outcomes[p] : ~outcomes[p][k].success

---------------------------------------------------------------------------
(* EnhancedUAEScraper.post_article_with_retry (enhanced_uae_scraper.py
   764-834): up to three attempts to post one article.  Every attempt is a
   call of the log, with the status of the response, 0 while there is none. *)

\* for attempt in range(3)
retry_attempts == 3

\* the statuses the API answers a POST with
Statuses == {200, 201, 204, 404, 409, 429, 500}

Post(data) ==
    [op |-> "post", data |-> data, story_id |-> None, result |-> "pending",
     status |-> 0]

Responded(p, result, status) ==
    calls' = [calls EXCEPT ![p] =
                [@ EXCEPT ![Len(@)].result = result, ![Len(@)].status = status]]

\* error_summary["api_errors"].append(...)
ApiError(entry) == [error_summary EXCEPT !.api_errors = Append(@, entry)]

\* return True, {} and return False, error_details
PostReturns(p, success) ==
    /\ post_returned' = [post_returned EXCEPT ![p] = <<success>>]
    /\ pc' = [pc EXCEPT ![p] = "posted"]

\* continue, after the sleep of the branch
Retry(p) == pc' = [pc EXCEPT ![p] = "backoff"] /\ UNCHANGED post_returned

\* the sleep of line 783 returns; the attempt builds its record, with a
\* story_id of its own, and posts it (lines 770-790)
PostArticle(p) ==
    /\ pc[p] = "attempt"
    /\ attempt[p] < retry_attempts
    /\ \E id \in uuid4 :
        LET data == ArticleData(Article(p), id, TRUE)
        IN  /\ minted' = minted \cup {id}
            /\ article_data' = [article_data EXCEPT ![p] = data]
            /\ calls' = [calls EXCEPT ![p] = Append(@, Post(data))]
    /\ pc' = [pc EXCEPT ![p] = "post"]
    /\ UNCHANGED <<scraper, text_processor, similarity_threshold, store, articles, idx,
                   processed_count, dup, recent_stories, matching_story_id, errors,
                   outcomes, attempt, post_returned, error_summary>>

\* the branches of lines 792-823, with every response but 200 and 201 tried
\* again
RespondsRetryingAll(p, status) ==
    /\ Responded(p, "response", status)
    /\ IF status \in {200, 201}
       THEN /\ store' = Append(store, article_data[p])
            /\ PostReturns(p, TRUE)
            /\ UNCHANGED error_summary
       ELSE /\ error_summary' = ApiError(status)
            /\ Retry(p)
            /\ UNCHANGED store

\* the branches of lines 792-823 for a response of the given status
Responds(p, status) ==
    /\ Responded(p, "response", status)
    /\ IF status \in {200, 201}
       THEN /\ store' = Append(store, article_data[p])
            /\ PostReturns(p, TRUE)
            /\ UNCHANGED error_summary
       ELSE IF status = 429
       THEN /\ error_summary' = [error_summary EXCEPT !.rate_limit_hits = @ + 1]
            /\ Retry(p)
            /\ UNCHANGED store
       ELSE IF status = 409
       THEN /\ error_summary' = ApiError(status)
            /\ PostReturns(p, FALSE)
            /\ UNCHANGED store
       ELSE /\ error_summary' = ApiError(status)
            /\ IF status >= 500 THEN Retry(p) ELSE PostReturns(p, FALSE)
            /\ UNCHANGED store

\* the API answers the POST
PostResponds(p) ==
    /\ pc[p] = "post"
    /\ \E status \in Statuses : Responds(p, status)
    /\ UNCHANGED <<scraper, text_processor, similarity_threshold, minted, articles,
                   idx, processed_count, dup, recent_stories, matching_story_id,
                   article_data, errors, outcomes, attempt>>

\* the POST raises, a timeout for one, before or after the API stored the
\* record (lines 826-832): the last attempt sleeps no more and the loop ends
PostRaises(p) ==
    /\ pc[p] = "post"
    /\ Responded(p, "raised", 0)
    /\ \/ store' = Append(store, article_data[p])
       \/ UNCHANGED store
    /\ error_summary' = ApiError(0)
    /\ errors' = [errors EXCEPT ![p] = @ + 1]
    /\ IF attempt[p] < 2
       THEN Retry(p) /\ UNCHANGED attempt
       ELSE /\ attempt' = [attempt EXCEPT ![p] = @ + 1]
            /\ PostReturns(p, FALSE)
    /\ UNCHANGED <<scraper, text_processor, similarity_threshold, minted, articles,
                   idx, processed_count, dup, recent_stories, matching_story_id,
                   article_data, outcomes>>

\* the sleep of a branch returns: the loop takes the next attempt, or is over
\* and line 834 returns False
BackOff(p) ==
    /\ pc[p] = "backoff"
    /\ attempt' = [attempt EXCEPT ![p] = @ + 1]
    /\ IF attempt[p] + 1 < retry_attempts
       THEN pc' = [pc EXCEPT ![p] = "attempt"] /\ UNCHANGED post_returned
       ELSE PostReturns(p, FALSE)
    /\ UNCHANGED <<shared, scraper, text_processor, articles, idx, processed_count,
                   dup, recent_stories, matching_story_id, article_data, calls,
                   errors, outcomes, error_summary>>

\* scrape_source_enhanced calls post_article_with_retry for an article; the
\* store is empty or holds one article
InitPost ==
    /\ minted = {1}
    /\ similarity_threshold = DefaultThreshold
    /\ store \in {<<>>} \cup SingleArticles
    /\ pc = [p \in ProcIds |-> IF p = 1 THEN "attempt" ELSE "idle"]
    /\ \E a \in ArticlesAt(1) :
            articles = [p \in ProcIds |-> IF p = 1 THEN <<a>> ELSE <<>>]
    /\ idx = [p \in ProcIds |-> 1]
    /\ processed_count = [p \in ProcIds |-> 0]
    /\ dup = [p \in ProcIds |-> FALSE]
    /\ recent_stories = [p \in ProcIds |-> <<>>]
    /\ matching_story_id = [p \in ProcIds |-> None]
    /\ article_data = [p \in ProcIds |-> NoData]
    /\ calls = [p \in ProcIds |-> NoCall]
    /\ errors = [p \in ProcIds |-> 0]
    /\ outcomes = [p \in ProcIds |-> <<>>]
    /\ Extracted
    /\ TextProcessorAtRest
    /\ EnhancedScraperAtRest

StepPost(p) ==
    \/ PostArticle(p)
    \/ PostResponds(p)
    \/ PostRaises(p)
    \/ BackOff(p)

NextPost == \E p \in ProcIds : StepPost(p)

\* The event loop resumes a coroutine whose sleep is over, and a POST is
\* answered or raises within its timeout of 10 seconds (line 789).
PostSpec == InitPost /\ [][NextPost]_vars /\ \A p \in ProcIds : WF_vars(StepPost(p))

\* the responses of the attempts: 200 or 201; tried again; a client error
Accepted(c) == c.result = "response" /\ c.status \in {200, 201}
TriedAgain(c) ==
    \/ c.result = "raised"
    \/ c.result = "response" /\ (c.status = 429 \/ c.status >= 500)
ClientError(c) ==
    c.result = "response" /\ c.status >= 400 /\ c.status < 500 /\ c.status # 429

PostDone(p) == post_returned[p] # NotReturned
LastPost(p) == calls[p][Len(calls[p])]

(* C30: post_article_with_retry always terminates, after at most 3 POST
   attempts: it returns success only on a 200 or 201 and makes no attempt
   after it; a 409 or another 4xx that is not 429 ends the attempts at once
   with failure; a 429, a 5xx or an exception is tried again up to the third
   attempt, after which it returns failure. *)
C30_PostTerminatesWithinThreeAttempts ==
    /\ [](\A p \in ProcIds :
            /\ Len(calls[p]) <= retry_attempts
            /\ \A i \in DOMAIN calls[p] : (i < Len(calls[p])) => TriedAgain(calls[p][i])
            /\ PostDone(p) =>
                /\ calls[p] # NoCall
                /\ LastPost(p).result # "pending"
                /\ (post_returned[p] = <<TRUE>>) <=> Accepted(LastPost(p))
                /\ TriedAgain(LastPost(p)) => Len(calls[p]) = retry_attempts
            /\ (calls[p] # NoCall /\ ~PostDone(p) /\ LastPost(p).result # "pending")
                    => TriedAgain(LastPost(p))
            /\ (calls[p] # NoCall /\ ClientError(LastPost(p)))
                    => post_returned[p] = <<FALSE>>)
    /\ [][\A p \in ProcIds :
            PostDone(p) =>
                (calls'[p] = calls[p] /\ post_returned'[p] = post_returned[p])]_vars
    /\ <>(PostDone(1))

\* the third attempt has ended the call after two attempts that were tried
\* again
C30_Witness ==
    \E p \in ProcIds :
        /\ post_returned[p] = <<FALSE>>
        /\ Len(calls[p]) = retry_attempts
        /\ calls[p][1].status = 429
        /\ calls[p][2].status = 500
        /\ LastPost(p).result = "raised"

==========================================================================
